---- MODULE Spec2Model ----
(***************************************************************************)
(* VDDB: the value/type model and its binary codec (src/types.rs) and the  *)
(* query engine (src/query/planner.rs) running over one storage manager    *)
(* shared behind a mutex.                                                  *)
(*                                                                         *)
(* Names (tables, columns, qualified output columns) are sequences of      *)
(* one-character strings, so that contains('.'), split('.') and            *)
(* starts_with are computed on the characters as the code computes them.   *)
(* String payloads are sequences of UTF-8 bytes.                           *)
(***************************************************************************)
EXTENDS Integers, Sequences, FiniteSets, Bags, TLC

VARIABLES
    \* ---- the shared StorageManager behind Arc<Mutex<..>>
    tables,         \* table name -> NoTable or [columns, row_count, store]
    lock,           \* NoEngine, or the engine whose MutexGuard is alive
    poisoned,       \* the mutex was poisoned by a panic under a live guard
    \* ---- one QueryEngine::execute call per engine
    pc,             \* position of the engine in execute
    query,          \* the Query being executed
    columns,        \* the (defaulted) column list of a Select
    table_def,      \* the cloned catalog entry (execute_select / execute_aggregate)
    required,       \* required_columns (select) / output columns still to read (join)
    column_values,  \* the HashMap column -> Vec<Value> read so far
    join_values,    \* <<left_values, right_values>> of execute_join
    results,        \* the scalars pushed by execute_aggregate so far
    outcome,        \* what execute returned: Ok(rows), Err(kind) or a panic
    reads,          \* read_column calls made by the current execute call
    calls,          \* storage-manager entry points used by the current call
    entry,          \* the storage contents a mutation or marker call found
    \* ---- the codec harness (Value::serialize / Value::deserialize)
    c_pc,           \* "off", "value", "bytes" or "decoded"
    c_value,        \* the Value handed to serialize
    c_bytes,        \* the buffer handed to deserialize
    c_cut,          \* the buffer was cut short of what serialize produced
    c_extra,        \* surplus bytes appended to the buffer
    c_type,         \* the DataType handed to deserialize
    c_result,       \* what deserialize returned
    \* ---- the ordering harness (Value::cmp / Value::partial_cmp)
    ord_pc,         \* "off", "args" or "compared"
    ord_a,          \* three Values handed to cmp
    ord_b,
    ord_c,
    ord_out,        \* what cmp and partial_cmp returned on them
    \* ---- the PluginManager (src/plugins/mod.rs)
    plugins,        \* the HashMap name -> plugin, as a set of [key, plugin] entries
    p_call,         \* the last PluginManager call: [op, name, plugin]
    p_result,       \* what that call returned
    p_hooks,        \* the plugin hooks that call invoked, in order
    p_before,       \* the registry that call found
    p_live          \* names registered with Ok and not unregistered since

engine_vars == <<pc, query, columns, table_def, required, column_values, join_values,
                 results, outcome, reads, calls, entry>>
data_locals == <<columns, table_def, required, column_values, join_values, results,
                 entry>>
storage_vars == <<tables, lock, poisoned>>
codec_vars == <<c_pc, c_value, c_bytes, c_cut, c_extra, c_type, c_result>>
ord_vars == <<ord_pc, ord_a, ord_b, ord_c, ord_out>>
plugin_vars == <<plugins, p_call, p_result, p_hooks, p_before, p_live>>
vars == <<tables, lock, poisoned, pc, query, columns, table_def, required, column_values,
          join_values, results, outcome, reads, calls, entry,
          c_pc, c_value, c_bytes, c_cut, c_extra, c_type, c_result,
          ord_pc, ord_a, ord_b, ord_c, ord_out,
          plugins, p_call, p_result, p_hooks, p_before, p_live>>

(***************************************************************************)
(* Bounds of the model.                                                    *)
(***************************************************************************)
\* rows a table may hold (Insert is refused by the harness beyond it)
MaxRows == 2
\* surplus bytes the codec harness may append to a buffer
MaxSurplus == 1

(***************************************************************************)
(* Generic helpers.                                                        *)
(***************************************************************************)
Range(s) == { s[i] : i \in DOMAIN s }

Contains(s, x) == \E i \in DOMAIN s : s[i] = x

RECURSIVE SeqSum(_)
SeqSum(s) == IF s = <<>> THEN 0 ELSE Head(s) + SeqSum(Tail(s))

RECURSIVE Flatten(_)
Flatten(ss) == IF ss = <<>> THEN <<>> ELSE Head(ss) \o Flatten(Tail(ss))

RECURSIVE Gcd(_, _)
Gcd(a, b) == IF b = 0 THEN a ELSE Gcd(b, a % b)

Abs(n) == IF n < 0 THEN 0 - n ELSE n

\* the indices of s, in order, whose element satisfies Keep
RECURSIVE KeepIdx(_, _)
KeepIdx(flags, i) ==
    IF i > Len(flags) THEN <<>>
    ELSE (IF flags[i] THEN <<i>> ELSE <<>>) \o KeepIdx(flags, i + 1)

SeqToBag(s) == [ x \in Range(s) |-> Cardinality({ i \in DOMAIN s : s[i] = x }) ]

(***************************************************************************)
(* types.rs: DataType and Value.  A Value is [tag, v] with v a sequence of *)
(* integers: Int32 <<i>>; String the UTF-8 bytes; Float32 either the bit   *)
(* fields <<sign, exponent, mantissa>> (the codec works on the bits) or    *)
(* the exact rational <<numerator, denominator>> (the aggregate            *)
(* arithmetic; sums of small integers are exact in f32 and a quotient      *)
(* stands for its correctly rounded f32).                                  *)
(***************************************************************************)
DataType == {"Int32", "Float32", "String"}

Int32(i) == [tag |-> "Int32", v |-> <<i>>]
Str(bytes) == [tag |-> "String", v |-> bytes]
Float32Bits(sign, exp, mant) == [tag |-> "Float32", v |-> <<sign, exp, mant>>]
Float32(num, den) == [tag |-> "Float32", v |-> <<num, den>>]

data_type(value) == value.tag

\* OrderedFloat on the bit fields: every NaN equals every NaN, +0.0 == -0.0
IsNaN(f) == f[2] = 255 /\ f[3] # 0
IsZero(f) == f[2] = 0 /\ f[3] = 0
OrderedFloatEq(f, g) ==
    IF Len(f) = 3 /\ Len(g) = 3
    THEN \/ IsNaN(f) /\ IsNaN(g)
         \/ ~IsNaN(f) /\ ~IsNaN(g) /\ (f = g \/ (IsZero(f) /\ IsZero(g)))
    ELSE f = g

\* #[derive(PartialEq)] on Value: same variant and equal payloads
ValueEq(a, b) ==
    /\ a.tag = b.tag
    /\ IF a.tag = "Float32" THEN OrderedFloatEq(a.v, b.v) ELSE a.v = b.v

\* lexicographic order of two integer sequences (String's Ord is bytewise)
RECURSIVE SeqLess(_, _)
SeqLess(s, t) ==
    IF t = <<>> THEN FALSE
    ELSE IF s = <<>> THEN TRUE
    ELSE IF Head(s) # Head(t) THEN Head(s) < Head(t)
    ELSE SeqLess(Tail(s), Tail(t))

\* the rationals n1/d1 < n2/d2 (denominators positive)
RatLess(f, g) == f[1] * g[2] < g[1] * f[2]

\* the sign of an f32 bit pattern that is not NaN: -0.0 and +0.0 are zero
BitsSign(f) == IF IsZero(f) THEN 0 ELSE IF f[1] = 1 THEN 0 - 1 ELSE 1

\* f < g on f32 bit patterns, as OrderedFloat::cmp orders them: NaN equals
\* NaN and is greater than every other value
BitsLess(f, g) ==
    IF IsNaN(f) THEN FALSE
    ELSE IF IsNaN(g) THEN TRUE
    ELSE IF BitsSign(f) # BitsSign(g) THEN BitsSign(f) < BitsSign(g)
    ELSE IF BitsSign(f) = 1 THEN f[2] < g[2] \/ (f[2] = g[2] /\ f[3] < g[3])
    ELSE IF BitsSign(f) = 0 - 1 THEN g[2] < f[2] \/ (f[2] = g[2] /\ g[3] < f[3])
    ELSE FALSE

\* OrderedFloat::cmp on either representation of an f32
FloatLess(f, g) == IF Len(f) = 3 /\ Len(g) = 3 THEN BitsLess(f, g) ELSE RatLess(f, g)

\* impl Ord for Value: per-tag comparison, cross-tag collapses to Equal
cmp(a, b) ==
    IF a.tag # b.tag THEN "Equal"
    ELSE IF a.tag = "Int32"
         THEN (IF a.v[1] < b.v[1] THEN "Less"
               ELSE IF a.v[1] > b.v[1] THEN "Greater" ELSE "Equal")
    ELSE IF a.tag = "String"
         THEN (IF SeqLess(a.v, b.v) THEN "Less"
               ELSE IF SeqLess(b.v, a.v) THEN "Greater" ELSE "Equal")
    ELSE (IF FloatLess(a.v, b.v) THEN "Less"
          ELSE IF FloatLess(b.v, a.v) THEN "Greater" ELSE "Equal")

\* impl PartialOrd for Value: None across tags
partial_cmp(a, b) == IF a.tag # b.tag THEN "None" ELSE cmp(a, b)

(***************************************************************************)
(* types.rs: the codec.  TLC's integers are 32-bit, so an i32 is split     *)
(* into bytes without forming 2^32, and a decoded u32 length is kept as    *)
(* <<high 16 bits, low 16 bits>>.                                          *)
(***************************************************************************)
Ok(x) == [status |-> "Ok", value |-> x]
Err(kind) == [status |-> "Err", kind |-> kind]
Panic(what) == [status |-> "Panic", kind |-> what]

\* i32::to_le_bytes: two's complement, least significant byte first
I32LeBytes(i) ==
    LET w == IF i < 0 THEN (i + 1073741824) + 1073741824 ELSE i
        top == (w \div 16777216) + (IF i < 0 THEN 128 ELSE 0)
    IN  <<w % 256, (w \div 256) % 256, (w \div 65536) % 256, top>>

\* i32::from_le_bytes
I32FromLeBytes(b) ==
    LET low == b[1] + 256 * b[2] + 65536 * b[3]
    IN  IF b[4] >= 128
        THEN ((b[4] - 128) * 16777216 + low - 1073741824) - 1073741824
        ELSE b[4] * 16777216 + low

\* f32::to_le_bytes of sign(1) | exponent(8) | mantissa(23)
F32LeBytes(f) ==
    <<f[3] % 256, (f[3] \div 256) % 256,
      (f[2] % 2) * 128 + (f[3] \div 65536), f[1] * 128 + (f[2] \div 2)>>

\* f32::from_le_bytes
F32FromLeBytes(b) ==
    <<b[4] \div 128, (b[4] % 128) * 2 + (b[3] \div 128),
      (b[3] % 128) * 65536 + b[2] * 256 + b[1]>>

\* bytes[from..to] (0-based, exclusive end); a slice out of range panics
Slice(bytes, from, to) ==
    IF from <= to /\ to <= Len(bytes)
    THEN Ok(SubSeq(bytes, from + 1, to))
    ELSE Panic("slice index out of range")

\* String::from_utf8's validity test
IsCont(b) == b >= 128 /\ b <= 191
RECURSIVE Utf8Valid(_)
Utf8Valid(b) ==
    IF b = <<>> THEN TRUE
    ELSE LET b0 == b[1]
             n == Len(b)
             rest(k) == SubSeq(b, k + 1, n)
         IN  IF b0 <= 127 THEN Utf8Valid(rest(1))
             ELSE IF b0 >= 194 /\ b0 <= 223
                  THEN n >= 2 /\ IsCont(b[2]) /\ Utf8Valid(rest(2))
             ELSE IF b0 >= 224 /\ b0 <= 239
                  THEN /\ n >= 3
                       /\ IsCont(b[2]) /\ IsCont(b[3])
                       /\ (b0 = 224 => b[2] >= 160)
                       /\ (b0 = 237 => b[2] <= 159)
                       /\ Utf8Valid(rest(3))
             ELSE IF b0 >= 240 /\ b0 <= 244
                  THEN /\ n >= 4
                       /\ IsCont(b[2]) /\ IsCont(b[3]) /\ IsCont(b[4])
                       /\ (b0 = 240 => b[2] >= 144)
                       /\ (b0 = 244 => b[2] <= 143)
                       /\ Utf8Valid(rest(4))
             ELSE FALSE

serialize_NoPrefix(value) ==
    IF value.tag = "Int32" THEN I32LeBytes(value.v[1])
    ELSE IF value.tag = "Float32" THEN F32LeBytes(value.v)
    ELSE value.v

serialize(value) ==
    IF value.tag = "Int32" THEN I32LeBytes(value.v[1])
    ELSE IF value.tag = "Float32" THEN F32LeBytes(value.v)
    ELSE I32LeBytes(Len(value.v)) \o value.v

serialized_size(value) ==
    IF value.tag = "String" THEN 4 + Len(value.v) ELSE 4

\* u32::from_le_bytes(len_array) as <<high half, low half>>
U32FromLeBytes(b) == <<b[4] * 256 + b[3], b[2] * 256 + b[1]>>

\* bytes.len() >= 4 + len, for a usize of 64 bits (4 + len cannot overflow)
\* and buffers shorter than 65536 bytes
HasStringBytes_PrefixOnly(bytes, len) == Len(bytes) >= 4

HasStringBytes(bytes, len) == len[1] = 0 /\ Len(bytes) >= 4 + len[2]

deserialize(dt, bytes) ==
    IF dt = "Int32"
    THEN IF Len(bytes) >= 4
         THEN LET array == Slice(bytes, 0, 4)
              IN  IF array.status = "Panic" THEN array
                  ELSE Ok(Int32(I32FromLeBytes(array.value)))
         ELSE Err("SerializationError")
    ELSE IF dt = "Float32"
    THEN IF Len(bytes) >= 4
         THEN LET array == Slice(bytes, 0, 4)
              IN  IF array.status = "Panic" THEN array
                  ELSE Ok([tag |-> "Float32", v |-> F32FromLeBytes(array.value)])
         ELSE Err("SerializationError")
    ELSE IF Len(bytes) >= 4
         THEN LET len_array == Slice(bytes, 0, 4)
                  len == U32FromLeBytes(len_array.value)
              IN  IF len_array.status = "Panic" THEN len_array
                  ELSE IF HasStringBytes(bytes, len)
                  THEN LET s == Slice(bytes, 4, 4 + len[2])
                       IN  IF s.status = "Panic" THEN s
                           ELSE IF Utf8Valid(s.value) THEN Ok(Str(s.value))
                           ELSE Err("SerializationError")
                  ELSE Err("SerializationError")
         ELSE Err("SerializationError")

(***************************************************************************)
(* Names used by the harness.                                              *)
(***************************************************************************)
NoEngine == 0

tL == <<"l">>
tR == <<"r">>
cID == <<"I", "D">>
cS == <<"s">>
cLid == <<"l", "i", "d">>
cZZ == <<"z", "z">>
Dot == "."
Qual(t, c) == t \o <<Dot>> \o c

TableNames == {tL, tR}

Column(name, dt) == [name |-> name, data_type |-> dt]

(***************************************************************************)
(* query/mod.rs (not in the source tree): Condition and Aggregation, from  *)
(* the design's description.  A condition is a predicate tree: a           *)
(* comparison of a column with a literal, or And / Or / Not of             *)
(* sub-conditions.  Option<Condition>::None is NoCond.                     *)
(***************************************************************************)
NoCond == [kind |-> "None", op |-> "", column |-> <<>>, value |-> Int32(0), subs |-> <<>>]
Cmp(op, column, value) ==
    [kind |-> "Cmp", op |-> op, column |-> column, value |-> value, subs |-> <<>>]
Not(c) == [kind |-> "Not", op |-> "", column |-> <<>>, value |-> Int32(0), subs |-> <<c>>]
And(c, d) == [kind |-> "And", op |-> "", column |-> <<>>, value |-> Int32(0), subs |-> <<c, d>>]
Or(c, d) == [kind |-> "Or", op |-> "", column |-> <<>>, value |-> Int32(0), subs |-> <<c, d>>]

Agg(fn, col) == [fn |-> fn, col |-> col]
Count == Agg("Count", <<>>)

\* collect_condition_columns: every column the condition touches, each once,
\* in order of first occurrence
RECURSIVE Dedup(_)
Dedup(s) ==
    IF s = <<>> THEN <<>>
    ELSE LET d == Dedup(SubSeq(s, 1, Len(s) - 1))
         IN  IF Contains(d, s[Len(s)]) THEN d ELSE Append(d, s[Len(s)])

RECURSIVE CondColumnList(_)
CondColumnList(cond) ==
    IF cond.kind = "None" THEN <<>>
    ELSE IF cond.kind = "Cmp" THEN <<cond.column>>
    ELSE IF cond.kind = "Not" THEN CondColumnList(cond.subs[1])
    ELSE CondColumnList(cond.subs[1]) \o CondColumnList(cond.subs[2])

collect_condition_columns(cond) == Dedup(CondColumnList(cond))

\* one comparison of a stored value with a literal: "true", "false", or
\* "err" when the tags are incompatible
Compare(op, a, b) ==
    IF a.tag # b.tag THEN "err"
    ELSE LET o == cmp(a, b)
             holds == CASE op = "Eq" -> o = "Equal"
                        [] op = "Ne" -> o # "Equal"
                        [] op = "Lt" -> o = "Less"
                        [] op = "Gt" -> o = "Greater"
                        [] op = "Le" -> o # "Greater"
                        [] OTHER -> o # "Less"
         IN  IF holds THEN "true" ELSE "false"

\* evaluate_condition_row(cond, column_values, i): fails when a referenced
\* column is absent from the map or the compared tags are incompatible
RECURSIVE evaluate_condition_row(_, _, _)
evaluate_condition_row(cond, cols, i) ==
    IF cond.kind = "None" THEN "true"
    ELSE IF cond.kind = "Cmp"
    THEN IF cond.column \notin DOMAIN cols THEN "err"
         ELSE IF i > Len(cols[cond.column]) THEN "err"
         ELSE Compare(cond.op, cols[cond.column][i], cond.value)
    ELSE IF cond.kind = "Not"
    THEN LET r == evaluate_condition_row(cond.subs[1], cols, i)
         IN  IF r = "err" THEN "err" ELSE IF r = "true" THEN "false" ELSE "true"
    ELSE LET r1 == evaluate_condition_row(cond.subs[1], cols, i)
             r2 == evaluate_condition_row(cond.subs[2], cols, i)
         IN  IF r1 = "err" \/ r2 = "err" THEN "err"
             ELSE IF cond.kind = "And"
             THEN (IF r1 = "true" /\ r2 = "true" THEN "true" ELSE "false")
             ELSE (IF r1 = "true" \/ r2 = "true" THEN "true" ELSE "false")

(***************************************************************************)
(* storage/mod.rs (not in the source tree): the StorageManager, from the   *)
(* design's component contract.  A table is its catalog entry (columns,    *)
(* row_count) and one column store per column.                             *)
(***************************************************************************)
EmptyStore == [c \in {} |-> <<>>]
NoTable == [exists |-> FALSE, columns |-> <<>>, row_count |-> 0, store |-> EmptyStore]

ColumnNames_Reversed(tbl) ==
    [i \in DOMAIN tbl.columns |-> tbl.columns[Len(tbl.columns) + 1 - i].name]

ColumnNames(tbl) == [i \in DOMAIN tbl.columns |-> tbl.columns[i].name]

\* schema().get_table(name)
get_table(tabs, name) == IF name \in DOMAIN tabs THEN tabs[name] ELSE NoTable

\* Table::get_column(name): the first column of that name
get_column(tbl, name) ==
    IF \E i \in DOMAIN tbl.columns : tbl.columns[i].name = name
    THEN LET i == CHOOSE k \in DOMAIN tbl.columns :
                      /\ tbl.columns[k].name = name
                      /\ \A m \in 1..(k - 1) : tbl.columns[m].name # name
         IN  [found |-> TRUE, def |-> tbl.columns[i]]
    ELSE [found |-> FALSE, def |-> Column(<<>>, "Int32")]

HasColumn(tbl, name) == \E i \in DOMAIN tbl.columns : tbl.columns[i].name = name

\* rows of a table are the positions 1..n of its column stores
StoreRows(tbl) ==
    IF tbl.columns = <<>> THEN 0 ELSE Len(tbl.store[tbl.columns[1].name])

\* the predicate at every row position: a sequence of "true"/"false"/"err"
RowFlags(tbl, cond) ==
    [i \in 1..StoreRows(tbl) |-> evaluate_condition_row(cond, tbl.store, i)]

CondFails(tbl, cond) ==
    \/ \E i \in DOMAIN collect_condition_columns(cond) :
           ~HasColumn(tbl, collect_condition_columns(cond)[i])
    \/ \E i \in DOMAIN RowFlags(tbl, cond) : RowFlags(tbl, cond)[i] = "err"

\* the row positions where the predicate holds, in order
Matching(tbl, cond) ==
    KeepIdx([i \in 1..StoreRows(tbl) |-> RowFlags(tbl, cond)[i] = "true"], 1)

NotMatching(tbl, cond) ==
    KeepIdx([i \in 1..StoreRows(tbl) |-> RowFlags(tbl, cond)[i] # "true"], 1)

Pick(vec, idx) == [k \in DOMAIN idx |-> vec[idx[k]]]

\* create_table that registers the table over an existing one
create_table_Overwrite(tabs, name, def) ==
    [res |-> Ok(<<>>),
     tables |-> [tabs EXCEPT ![name] =
         [exists |-> TRUE, columns |-> def.columns, row_count |-> def.row_count,
          store |-> [c \in Range(ColumnNames(def)) |-> <<>>]]]]

\* create_table(&Table): fails if the table already exists
create_table(tabs, name, def) ==
    IF get_table(tabs, name).exists
    THEN [res |-> Err("StorageError"), tables |-> tabs]
    ELSE [res |-> Ok(<<>>),
          tables |-> [tabs EXCEPT ![name] =
              [exists |-> TRUE, columns |-> def.columns, row_count |-> def.row_count,
               store |-> [c \in Range(ColumnNames(def)) |-> <<>>]]]]

\* drop_table(name): fails if the table is unknown
drop_table(tabs, name) ==
    IF ~get_table(tabs, name).exists
    THEN [res |-> Err("StorageError"), tables |-> tabs]
    ELSE [res |-> Ok(<<>>), tables |-> [tabs EXCEPT ![name] = NoTable]]

\* insert_row whose tag check comes after the first column's append
insert_row_HalfWritten(tabs, name, values) ==
    LET tbl == get_table(tabs, name)
        first == IF tbl.columns = <<>> THEN <<>> ELSE tbl.columns[1].name
    IN  IF ~tbl.exists \/ Len(values) # Len(tbl.columns) \/ values = <<>>
        THEN [res |-> Err("InvalidData"), tables |-> tabs]
        ELSE [res |-> IF \E i \in DOMAIN values : values[i].tag # tbl.columns[i].data_type
                      THEN Err("TypeMismatch") ELSE Ok(<<>>),
              tables |-> [tabs EXCEPT ![name] =
                  [tbl EXCEPT !.store = [c \in DOMAIN tbl.store |->
                      IF c = first THEN Append(tbl.store[c], values[1])
                      ELSE tbl.store[c]]]]]

\* insert_row(table, values): arity and tags are validated, then one entry
\* is appended to every column store and the row count incremented
insert_row(tabs, name, values) ==
    LET tbl == get_table(tabs, name)
    IN  IF ~tbl.exists THEN [res |-> Err("InvalidData"), tables |-> tabs]
        ELSE IF Len(values) # Len(tbl.columns)
        THEN [res |-> Err("InvalidData"), tables |-> tabs]
        ELSE IF \E i \in DOMAIN values : values[i].tag # tbl.columns[i].data_type
        THEN [res |-> Err("TypeMismatch"), tables |-> tabs]
        ELSE [res |-> Ok(<<>>),
              tables |-> [tabs EXCEPT ![name] =
                  [tbl EXCEPT !.row_count = tbl.row_count + 1,
                              !.store = [c \in DOMAIN tbl.store |->
                                  Append(tbl.store[c],
                                         values[CHOOSE i \in DOMAIN tbl.columns :
                                                    tbl.columns[i].name = c])]]]]

\* insert_row on a valid row when a column append fails: the error is
\* returned and nothing of the row is kept
append_fails(tabs) == [res |-> Err("IoError"), tables |-> tabs]

\* delete_rows(table, condition): every column store is rewritten without
\* the matched positions; the row count drops by the number removed
delete_rows(tabs, name, cond) ==
    LET tbl == get_table(tabs, name)
    IN  IF ~tbl.exists THEN [res |-> Err("InvalidData"), tables |-> tabs]
        ELSE IF CondFails(tbl, cond) THEN [res |-> Err("InvalidData"), tables |-> tabs]
        ELSE [res |-> Ok(<<>>),
              tables |-> [tabs EXCEPT ![name] =
                  [tbl EXCEPT !.row_count = tbl.row_count - Len(Matching(tbl, cond)),
                              !.store = [c \in DOMAIN tbl.store |->
                                  Pick(tbl.store[c], NotMatching(tbl, cond))]]]]

\* read_column(table, column, condition): the column's values at the row
\* positions where the predicate holds; fails on an unknown table or column
read_column(tabs, name, column, cond) ==
    LET tbl == get_table(tabs, name)
    IN  IF ~tbl.exists \/ ~HasColumn(tbl, column) THEN Err("InvalidData")
        ELSE IF CondFails(tbl, cond) THEN Err("InvalidData")
        ELSE Ok(Pick(tbl.store[column], Matching(tbl, cond)))

(***************************************************************************)
(* query/mod.rs (not in the source tree): the Query variants, as           *)
(* planner.rs destructures them.                                           *)
(***************************************************************************)
NoQuery ==
    [kind |-> "None", table |-> <<>>, columns |-> <<>>, condition |-> NoCond,
     aggregations |-> <<>>, right_table |-> <<>>, left_column |-> <<>>,
     right_column |-> <<>>, values |-> <<>>, schema |-> <<>>]
Select(t, cols, cond) ==
    [NoQuery EXCEPT !.kind = "Select", !.table = t, !.columns = cols, !.condition = cond]
SelectAggregate(t, aggs, cond) ==
    [NoQuery EXCEPT !.kind = "SelectAggregate", !.table = t, !.aggregations = aggs,
                    !.condition = cond]
Join(lt, rt, lc, rc, cols, cond) ==
    [NoQuery EXCEPT !.kind = "Join", !.table = lt, !.right_table = rt, !.left_column = lc,
                    !.right_column = rc, !.columns = cols, !.condition = cond]
Insert(t, vals) == [NoQuery EXCEPT !.kind = "Insert", !.table = t, !.values = vals]
CreateTable(t, cols) == [NoQuery EXCEPT !.kind = "CreateTable", !.table = t, !.schema = cols]
Delete(t, cond) == [NoQuery EXCEPT !.kind = "Delete", !.table = t, !.condition = cond]
DropTable(t) == [NoQuery EXCEPT !.kind = "DropTable", !.table = t]
Marker(k) == [NoQuery EXCEPT !.kind = k]

(***************************************************************************)
(* planner.rs: helpers of execute_select / execute_aggregate /             *)
(* execute_join.                                                           *)
(***************************************************************************)
\* usize::MAX, the start value of min_row_count: larger than any length
UsizeMax == 2147483647

Min2(a, b) == IF a < b THEN a ELSE b

\* self.storage.lock().unwrap(): the guard the locking statement binds
LockStorage_Dropped(e) == NoEngine

LockStorage(e) == e

\* the guard a scoped lookup block leaves behind (dropped at the block's end)
ScopedGuard(e) == NoEngine

\* execute_select: the first requested column missing from table_def, if any
MissingColumn(def, cols) ==
    \E i \in DOMAIN cols : ~HasColumn(def, cols[i])

\* execute_select: required_columns = columns, then every condition column
\* not yet contained
RECURSIVE PushMissing(_, _)
PushMissing(req, cols) ==
    IF cols = <<>> THEN req
    ELSE PushMissing(IF Contains(req, Head(cols)) THEN req ELSE Append(req, Head(cols)),
                     Tail(cols))

required_columns(cols, cond) == PushMissing(cols, collect_condition_columns(cond))

\* min_row_count over the vectors read
RECURSIVE MinLen(_, _)
MinLen(cv, keys) ==
    IF keys = {} THEN UsizeMax
    ELSE LET k == CHOOSE x \in keys : TRUE
         IN  Min2(Len(cv[k]), MinLen(cv, keys \ {k}))

\* one output row of execute_select
ProjectRow_Reversed(cols, cv, i) ==
    [k \in DOMAIN cols |-> cv[cols[Len(cols) + 1 - k]][i]]

ProjectRow(cols, cv, i) == [k \in DOMAIN cols |-> cv[cols[k]][i]]

\* the filter_map closure of execute_select at row index i (1-based here):
\* <<"row", r>>, <<"skip">> or <<"err">>
SelectItem(cols, cond, cv, i) ==
    IF cond.kind # "None"
    THEN LET r == evaluate_condition_row(cond, cv, i)
         IN  IF r = "true" THEN [k |-> "row", row |-> ProjectRow(cols, cv, i)]
             ELSE IF r = "false" THEN [k |-> "skip", row |-> <<>>]
             ELSE [k |-> "err", row |-> <<>>]
    ELSE [k |-> "row", row |-> ProjectRow(cols, cv, i)]

\* collect::<Result<Vec<_>, _>>() over the items: the first error wins,
\* otherwise the rows in index order
CollectRows(items) ==
    IF \E i \in DOMAIN items : items[i].k = "err" THEN Err("InvalidData")
    ELSE Ok(Pick([i \in DOMAIN items |-> items[i].row],
                 KeepIdx([i \in DOMAIN items |-> items[i].k = "row"], 1)))

\* the parallel filter of execute_select over 0..min_row_count
SelectRows(cols, cond, cv) ==
    LET n == MinLen(cv, DOMAIN cv)
    IN  IF n = UsizeMax THEN Panic("capacity overflow")
        ELSE CollectRows([i \in 1..n |-> SelectItem(cols, cond, cv, i)])

\* ---- aggregates: f32 arithmetic on exact rationals
RatNorm(n, d) ==
    LET g == Gcd(Abs(n), d) IN IF n = 0 THEN <<0, 1>> ELSE <<n \div g, d \div g>>
RatAdd(f, g) == RatNorm(f[1] * g[2] + g[1] * f[2], f[2] * g[2])

\* the fold of Sum / Avg: Float32 and Int32 values are added, others skipped
RECURSIVE FoldSum(_, _)
FoldSum(acc, values) ==
    IF values = <<>> THEN acc
    ELSE LET v == Head(values)
             next == IF v.tag = "Float32" THEN Float32(RatAdd(acc.v, v.v)[1], RatAdd(acc.v, v.v)[2])
                     ELSE IF v.tag = "Int32"
                     THEN Float32(RatAdd(acc.v, <<v.v[1], 1>>)[1], RatAdd(acc.v, <<v.v[1], 1>>)[2])
                     ELSE acc
         IN  FoldSum(next, Tail(values))

\* a min_by that keeps the first element
MinBy_First(best, values) == best

\* Iterator::min_by: the first of the least elements
RECURSIVE MinBy(_, _)
MinBy(best, values) ==
    IF values = <<>> THEN best
    ELSE MinBy(IF cmp(Head(values), best) = "Less" THEN Head(values) ELSE best, Tail(values))

\* Iterator::max_by: the last of the greatest elements
RECURSIVE MaxBy(_, _)
MaxBy(best, values) ==
    IF values = <<>> THEN best
    ELSE MaxBy(IF cmp(Head(values), best) = "Less" THEN best ELSE Head(values), Tail(values))

\* the column an aggregation reads: Count reads the column named "ID"
AggColumn(agg) == IF agg.fn = "Count" THEN cID ELSE agg.col

Numeric(dt) == dt = "Float32" \/ dt = "Int32"

NumericCheck_Skipped(dt) == TRUE

NumericCheck(dt) == Numeric(dt)

\* an Avg that returns the sum
AvgOf_NoDivide(values) == FoldSum(Float32(0, 1), values)

AvgOf(values) ==
    LET sum == FoldSum(Float32(0, 1), values)
    IN  IF Len(values) > 0
        THEN Float32(RatNorm(sum.v[1], sum.v[2] * Len(values))[1],
                     RatNorm(sum.v[1], sum.v[2] * Len(values))[2])
        ELSE Float32(0, 1)

\* the match on agg in execute_aggregate, given the column's definition and
\* the values read
AggResult(agg, col_def, values) ==
    IF agg.fn = "Count" THEN Ok(Int32(Len(values)))
    ELSE IF agg.fn = "Sum"
    THEN IF ~NumericCheck(col_def.data_type) THEN Err("InvalidData")
         ELSE Ok(FoldSum(Float32(0, 1), values))
    ELSE IF agg.fn = "Avg"
    THEN IF ~NumericCheck(col_def.data_type) THEN Err("InvalidData")
         ELSE Ok(AvgOf(values))
    ELSE IF agg.fn = "Min"
    THEN Ok(IF values = <<>> THEN Float32(0, 1) ELSE MinBy(Head(values), Tail(values)))
    ELSE Ok(IF values = <<>> THEN Float32(0, 1) ELSE MaxBy(Head(values), Tail(values)))

\* ---- join: resolution of an output column
HasDot(col) == Contains(col, Dot)

\* col.split('.'): the parts between the dots
RECURSIVE SplitDot(_, _)
SplitDot(col, cur) ==
    IF col = <<>> THEN <<cur>>
    ELSE IF Head(col) = Dot THEN <<cur>> \o SplitDot(Tail(col), <<>>)
    ELSE SplitDot(Tail(col), Append(cur, Head(col)))

\* (table, col_name) of an output column
ResolveTable(col, left_table) ==
    IF HasDot(col) THEN SplitDot(col, <<>>)[1] ELSE left_table
ResolveColumn(col) ==
    IF HasDot(col) THEN SplitDot(col, <<>>)[2] ELSE col

StartsWith(s, prefix) ==
    Len(prefix) <= Len(s) /\ SubSeq(s, 1, Len(prefix)) = prefix

\* min_row_count_left / min_row_count_right after reading the output columns
SideKeys(cols, cv, q, right) ==
    { c \in Range(cols) : (ResolveTable(c, q.table) = q.right_table) = right }

\* one combined row for the pair (i, j): Ok(row), or Err on an index out of
\* the column's bounds
JoinRow(q, cv, i, j) ==
    LET idx(c) == IF StartsWith(c, q.right_table) THEN j ELSE i
    IN  IF \E k \in DOMAIN q.columns : idx(q.columns[k]) > Len(cv[q.columns[k]])
        THEN [k |-> "err", row |-> <<>>]
        ELSE [k |-> "row", row |-> [k \in DOMAIN q.columns |->
                                       cv[q.columns[k]][idx(q.columns[k])]]]

\* the items of the nested loop, left index major
JoinItems(q, cv, lv, rv, nl, nr) ==
    Flatten([i \in 1..nl |->
        Pick([j \in 1..nr |-> JoinRow(q, cv, i, j)],
             KeepIdx([j \in 1..nr |-> ValueEq(lv[i], rv[j])], 1))])

\* the parallel nested loop of execute_join: left_values[i] and
\* right_values[j] are indexed without a bounds test and panic out of range
JoinRows(q, cv, lv, rv) ==
    LET nl == MinLen(cv, SideKeys(q.columns, cv, q, FALSE))
        nr == MinLen(cv, SideKeys(q.columns, cv, q, TRUE))
    IN  IF nl > Len(lv) \/ (nl >= 1 /\ nr > Len(rv))
        THEN Panic("index out of bounds")
        ELSE CollectRows(JoinItems(q, cv, lv, rv, nl, nr))

(***************************************************************************)
(* The state machine: QueryEngine::execute, one engine per caller thread,  *)
(* all engines sharing one Arc<Mutex<StorageManager>>.                     *)
(***************************************************************************)
Engines == {1, 2}

NoOutcome == [status |-> "None", kind |-> ""]

\* a plugin: what name() and version() return and what its hooks return
Plugin(name, version, initialize, shutdown) ==
    [name |-> name, version |-> version, initialize |-> initialize, shutdown |-> shutdown]

\* no PluginManager call has been made
NoCall == [op |-> "none", name |-> "", plugin |-> Plugin("", 0, "Ok", "Ok")]

\* cmp has not been called
NoCompare == [ab |-> "", ba |-> "", bc |-> "", ac |-> "", partial |-> ""]

\* Query::CreateTable: the Table handed to create_table
NewTable_OneRow(q) ==
    [columns |-> [i \in DOMAIN q.schema |-> Column(q.schema[i][1], q.schema[i][2])],
     row_count |-> 1]

NewTable(q) ==
    [columns |-> [i \in DOMAIN q.schema |-> Column(q.schema[i][1], q.schema[i][2])],
     row_count |-> 0]

\* StorageManager::new: an empty catalog
NoTables == [t \in TableNames |-> NoTable]

Put(cv, key, values) ==
    [c \in (DOMAIN cv) \cup {key} |-> IF c = key THEN values ELSE cv[c]]

Init ==
    /\ tables = NoTables
    /\ lock = NoEngine
    /\ poisoned = FALSE
    /\ pc = [e \in Engines |-> "idle"]
    /\ query = [e \in Engines |-> NoQuery]
    /\ columns = [e \in Engines |-> <<>>]
    /\ table_def = [e \in Engines |-> NoTable]
    /\ required = [e \in Engines |-> <<>>]
    /\ column_values = [e \in Engines |-> EmptyStore]
    /\ join_values = [e \in Engines |-> <<>>]
    /\ results = [e \in Engines |-> <<>>]
    /\ outcome = [e \in Engines |-> NoOutcome]
    /\ reads = [e \in Engines |-> 0]
    /\ calls = [e \in Engines |-> 0]
    /\ entry = [e \in Engines |-> NoTables]
    /\ c_pc = "off"
    /\ c_value = Int32(0)
    /\ c_bytes = <<>>
    /\ c_cut = FALSE
    /\ c_extra = 0
    /\ c_type = "Int32"
    /\ c_result = NoOutcome
    /\ ord_pc = "off"
    /\ ord_a = Int32(0)
    /\ ord_b = Int32(0)
    /\ ord_c = Int32(0)
    /\ ord_out = NoCompare
    /\ plugins = {}
    /\ p_call = NoCall
    /\ p_result = NoOutcome
    /\ p_hooks = <<>>
    /\ p_before = {}
    /\ p_live = {}

\* the caller hands a query to execute
Start(e, q) ==
    /\ pc[e] = "idle"
    /\ pc' = [pc EXCEPT ![e] = "execute"]
    /\ query' = [query EXCEPT ![e] = q]
    /\ UNCHANGED <<storage_vars, entry, columns, table_def, required, column_values,
                   join_values, results, outcome, reads, calls, codec_vars, ord_vars, plugin_vars>>

\* execute returns to the caller
Return(e) ==
    /\ pc[e] = "done"
    /\ pc' = [pc EXCEPT ![e] = "idle"]
    /\ query' = [query EXCEPT ![e] = NoQuery]
    /\ columns' = [columns EXCEPT ![e] = <<>>]
    /\ table_def' = [table_def EXCEPT ![e] = NoTable]
    /\ required' = [required EXCEPT ![e] = <<>>]
    /\ column_values' = [column_values EXCEPT ![e] = EmptyStore]
    /\ join_values' = [join_values EXCEPT ![e] = <<>>]
    /\ results' = [results EXCEPT ![e] = <<>>]
    /\ outcome' = [outcome EXCEPT ![e] = NoOutcome]
    /\ reads' = [reads EXCEPT ![e] = 0]
    /\ calls' = [calls EXCEPT ![e] = 0]
    /\ entry' = [entry EXCEPT ![e] = NoTables]
    /\ UNCHANGED <<storage_vars, codec_vars, ord_vars, plugin_vars>>

\* the call ends with `out`; a panic unwinds the thread
Finish(e, out) ==
    /\ pc' = [pc EXCEPT ![e] = IF out.status = "Panic" THEN "panicked" ELSE "done"]
    /\ outcome' = [outcome EXCEPT ![e] = out]

\* the positions at which execute calls self.storage.lock().unwrap()
AtLockSite(e) ==
    \/ pc[e] = "execute" /\ query[e].kind = "Select" /\ query[e].columns = <<>>
    \/ pc[e] = "execute" /\ query[e].kind \in
           {"SelectAggregate", "Join", "Insert", "CreateTable", "Delete", "DropTable"}
    \/ pc[e] \in {"select", "select_lock", "agg_lock"}

\* lock() on a poisoned mutex returns Err and unwrap() panics
LockPoisoned(e) ==
    /\ AtLockSite(e)
    /\ lock = NoEngine
    /\ poisoned
    /\ Finish(e, Panic("PoisonError"))
    /\ UNCHANGED <<storage_vars, query, entry, columns, table_def, required, column_values,
                   join_values, results, reads, calls, codec_vars, ord_vars, plugin_vars>>

CanLock == lock = NoEngine /\ ~poisoned

\* ---------------------------------------------------------------- Select
\* execute, Query::Select: an empty column list defaults to all columns of
\* the table, looked up under a guard scoped to the if-block
SelectColumns(e) ==
    /\ pc[e] = "execute"
    /\ query[e].kind = "Select"
    /\ IF query[e].columns = <<>>
       THEN /\ CanLock
            /\ lock' = ScopedGuard(e)
            /\ calls' = [calls EXCEPT ![e] = @ + 1]
            /\ IF get_table(tables, query[e].table).exists
               THEN /\ columns' = [columns EXCEPT ![e] =
                                      ColumnNames(get_table(tables, query[e].table))]
                    /\ pc' = [pc EXCEPT ![e] = "select"]
                    /\ UNCHANGED outcome
               ELSE /\ Finish(e, Err("InvalidData"))
                    /\ UNCHANGED columns
       ELSE /\ columns' = [columns EXCEPT ![e] = query[e].columns]
            /\ pc' = [pc EXCEPT ![e] = "select"]
            /\ UNCHANGED <<lock, calls, outcome>>
    /\ UNCHANGED <<tables, poisoned, query, entry, table_def, required, column_values,
                   join_values, results, reads, codec_vars, ord_vars, plugin_vars>>

\* execute_select: table_def is cloned under a scoped guard, then the
\* requested and the condition's columns are validated against the clone
SelectLookup(e) ==
    /\ pc[e] = "select"
    /\ CanLock
    /\ lock' = ScopedGuard(e)
    /\ calls' = [calls EXCEPT ![e] = @ + 1]
    /\ LET def == get_table(tables, query[e].table)
           cond == query[e].condition
       IN  IF ~def.exists
           THEN /\ Finish(e, Err("InvalidData"))
                /\ UNCHANGED <<table_def, required>>
           ELSE /\ table_def' = [table_def EXCEPT ![e] = def]
                /\ IF \/ MissingColumn(def, columns[e])
                      \/ MissingColumn(def, collect_condition_columns(cond))
                   THEN /\ Finish(e, Err("InvalidData"))
                        /\ UNCHANGED required
                   ELSE /\ required' = [required EXCEPT ![e] =
                                           required_columns(columns[e], cond)]
                        /\ pc' = [pc EXCEPT ![e] = "select_lock"]
                        /\ UNCHANGED outcome
    /\ UNCHANGED <<tables, poisoned, query, entry, columns, column_values, join_values,
                   results, reads, codec_vars, ord_vars, plugin_vars>>

\* execute_select: let mut storage_guard = self.storage.lock().unwrap()
SelectLock(e) ==
    /\ pc[e] = "select_lock"
    /\ CanLock
    /\ lock' = LockStorage(e)
    /\ pc' = [pc EXCEPT ![e] = "select_read"]
    /\ UNCHANGED <<tables, poisoned, query, data_locals, outcome, reads, calls,
                   codec_vars, ord_vars, plugin_vars>>

\* execute_select: one read_column call of the loop over required_columns
SelectRead(e) ==
    /\ pc[e] = "select_read"
    /\ required[e] # <<>>
    /\ reads' = [reads EXCEPT ![e] = @ + 1]
    /\ calls' = [calls EXCEPT ![e] = @ + 1]
    /\ LET col == Head(required[e])
           r == read_column(tables, query[e].table, col, query[e].condition)
       IN  IF r.status = "Err"
           THEN /\ Finish(e, r)
                /\ lock' = NoEngine
                /\ UNCHANGED <<required, column_values>>
           ELSE /\ column_values' = [column_values EXCEPT ![e] = Put(@, col, r.value)]
                /\ required' = [required EXCEPT ![e] = Tail(@)]
                /\ UNCHANGED <<pc, outcome, lock>>
    /\ UNCHANGED <<tables, poisoned, query, entry, columns, table_def, join_values, results,
                   codec_vars, ord_vars, plugin_vars>>

\* execute_select: the parallel filter and projection, then the guard is
\* dropped as the function returns
SelectCompute(e) ==
    /\ pc[e] = "select_read"
    /\ required[e] = <<>>
    /\ LET out == SelectRows(columns[e], query[e].condition, column_values[e])
       IN  /\ Finish(e, out)
           /\ poisoned' = (poisoned \/ out.status = "Panic")
    /\ lock' = NoEngine
    /\ UNCHANGED <<tables, query, data_locals, reads, calls, codec_vars, ord_vars, plugin_vars>>

\* ------------------------------------------------------- SelectAggregate
\* execute_aggregate: table_def is cloned under a scoped guard
AggregateLookup(e) ==
    /\ pc[e] = "execute"
    /\ query[e].kind = "SelectAggregate"
    /\ CanLock
    /\ lock' = ScopedGuard(e)
    /\ calls' = [calls EXCEPT ![e] = @ + 1]
    /\ LET def == get_table(tables, query[e].table)
       IN  IF ~def.exists
           THEN /\ Finish(e, Err("InvalidData"))
                /\ UNCHANGED table_def
           ELSE /\ table_def' = [table_def EXCEPT ![e] = def]
                /\ pc' = [pc EXCEPT ![e] = "agg_lock"]
                /\ UNCHANGED outcome
    /\ UNCHANGED <<tables, poisoned, query, entry, columns, required, column_values,
                   join_values, results, reads, codec_vars, ord_vars, plugin_vars>>

\* execute_aggregate: let mut storage_guard = self.storage.lock().unwrap()
AggregateLock(e) ==
    /\ pc[e] = "agg_lock"
    /\ CanLock
    /\ lock' = LockStorage(e)
    /\ pc' = [pc EXCEPT ![e] = "agg_loop"]
    /\ required' = [required EXCEPT ![e] = query[e].aggregations]
    /\ UNCHANGED <<tables, poisoned, query, entry, columns, table_def, column_values,
                   join_values, results, outcome, reads, calls, codec_vars, ord_vars, plugin_vars>>

\* execute_aggregate: one iteration of the loop over the aggregations:
\* resolve the column in table_def, read it, compute the scalar
AggregateStep(e) ==
    /\ pc[e] = "agg_loop"
    /\ required[e] # <<>>
    /\ LET agg == Head(required[e])
           column == AggColumn(agg)
           col_def == get_column(table_def[e], column)
           r == read_column(tables, query[e].table, column, query[e].condition)
           res == AggResult(agg, col_def.def, r.value)
       IN  IF ~col_def.found
           THEN /\ Finish(e, Err("InvalidData"))
                /\ lock' = NoEngine
                /\ UNCHANGED <<required, results, reads, calls>>
           ELSE /\ reads' = [reads EXCEPT ![e] = @ + 1]
                /\ calls' = [calls EXCEPT ![e] = @ + 1]
                /\ IF r.status = "Err"
                   THEN /\ Finish(e, r)
                        /\ lock' = NoEngine
                        /\ UNCHANGED <<required, results>>
                   ELSE IF res.status = "Err"
                   THEN /\ Finish(e, res)
                        /\ lock' = NoEngine
                        /\ UNCHANGED <<required, results>>
                   ELSE /\ results' = [results EXCEPT ![e] = Append(@, res.value)]
                        /\ required' = [required EXCEPT ![e] = Tail(@)]
                        /\ UNCHANGED <<pc, outcome, lock>>
    /\ UNCHANGED <<tables, poisoned, query, entry, columns, table_def, column_values,
                   join_values, codec_vars, ord_vars, plugin_vars>>

\* execute_aggregate: Ok(vec![results])
AggregateFinish(e) ==
    /\ pc[e] = "agg_loop"
    /\ required[e] = <<>>
    /\ Finish(e, Ok(<<results[e]>>))
    /\ lock' = NoEngine
    /\ UNCHANGED <<tables, poisoned, query, data_locals, reads, calls, codec_vars, ord_vars, plugin_vars>>

\* ------------------------------------------------------------------ Join
\* execute_join: let mut storage_guard = self.storage.lock().unwrap()
JoinLock(e) ==
    /\ pc[e] = "execute"
    /\ query[e].kind = "Join"
    /\ CanLock
    /\ lock' = LockStorage(e)
    /\ pc' = [pc EXCEPT ![e] = "join_left"]
    /\ UNCHANGED <<tables, poisoned, query, data_locals, outcome, reads, calls,
                   codec_vars, ord_vars, plugin_vars>>

\* execute_join: left_values = read_column(left_table, left_column, ..)?
JoinReadLeft(e) ==
    /\ pc[e] = "join_left"
    /\ reads' = [reads EXCEPT ![e] = @ + 1]
    /\ calls' = [calls EXCEPT ![e] = @ + 1]
    /\ LET r == read_column(tables, query[e].table, query[e].left_column,
                            query[e].condition)
       IN  IF r.status = "Err"
           THEN /\ Finish(e, r)
                /\ lock' = NoEngine
                /\ UNCHANGED join_values
           ELSE /\ join_values' = [join_values EXCEPT ![e] = <<r.value>>]
                /\ pc' = [pc EXCEPT ![e] = "join_right"]
                /\ UNCHANGED <<outcome, lock>>
    /\ UNCHANGED <<tables, poisoned, query, entry, columns, table_def, required,
                   column_values, results, codec_vars, ord_vars, plugin_vars>>

\* execute_join: right_values = read_column(right_table, right_column, ..)?
JoinReadRight(e) ==
    /\ pc[e] = "join_right"
    /\ reads' = [reads EXCEPT ![e] = @ + 1]
    /\ calls' = [calls EXCEPT ![e] = @ + 1]
    /\ LET r == read_column(tables, query[e].right_table, query[e].right_column,
                            query[e].condition)
       IN  IF r.status = "Err"
           THEN /\ Finish(e, r)
                /\ lock' = NoEngine
                /\ UNCHANGED <<join_values, required>>
           ELSE /\ join_values' = [join_values EXCEPT ![e] = Append(@, r.value)]
                /\ required' = [required EXCEPT ![e] = query[e].columns]
                /\ pc' = [pc EXCEPT ![e] = "join_cols"]
                /\ UNCHANGED <<outcome, lock>>
    /\ UNCHANGED <<tables, poisoned, query, entry, columns, table_def, column_values,
                   results, codec_vars, ord_vars, plugin_vars>>

\* execute_join: one iteration of the loop over the output columns
JoinReadColumn(e) ==
    /\ pc[e] = "join_cols"
    /\ required[e] # <<>>
    /\ reads' = [reads EXCEPT ![e] = @ + 1]
    /\ calls' = [calls EXCEPT ![e] = @ + 1]
    /\ LET col == Head(required[e])
           r == read_column(tables, ResolveTable(col, query[e].table),
                            ResolveColumn(col), query[e].condition)
       IN  IF r.status = "Err"
           THEN /\ Finish(e, r)
                /\ lock' = NoEngine
                /\ UNCHANGED <<required, column_values>>
           ELSE /\ column_values' = [column_values EXCEPT ![e] = Put(@, col, r.value)]
                /\ required' = [required EXCEPT ![e] = Tail(@)]
                /\ UNCHANGED <<pc, outcome, lock>>
    /\ UNCHANGED <<tables, poisoned, query, entry, columns, table_def, join_values, results,
                   codec_vars, ord_vars, plugin_vars>>

\* execute_join: the parallel nested loop; a panic in it unwinds through the
\* live guard and poisons the mutex
JoinCompute(e) ==
    /\ pc[e] = "join_cols"
    /\ required[e] = <<>>
    /\ LET out == JoinRows(query[e], column_values[e], join_values[e][1],
                           join_values[e][2])
       IN  /\ Finish(e, out)
           /\ poisoned' = (poisoned \/ out.status = "Panic")
    /\ lock' = NoEngine
    /\ UNCHANGED <<tables, query, data_locals, reads, calls, codec_vars, ord_vars, plugin_vars>>

\* ------------------------------------------------------------- mutations
\* one storage-manager call under a guard that lives for the statement
Mutation(e, r) ==
    /\ CanLock
    /\ tables' = r.tables
    /\ calls' = [calls EXCEPT ![e] = @ + 1]
    /\ entry' = [entry EXCEPT ![e] = tables]
    /\ Finish(e, IF r.res.status = "Ok" THEN Ok(<<>>) ELSE r.res)
    /\ UNCHANGED <<lock, poisoned, query, columns, table_def, required, column_values,
                   join_values, results, reads, codec_vars, ord_vars, plugin_vars>>

ExecInsert(e) ==
    /\ pc[e] = "execute"
    /\ query[e].kind = "Insert"
    /\ get_table(tables, query[e].table).row_count < MaxRows
    /\ \/ Mutation(e, insert_row(tables, query[e].table, query[e].values))
       \/ /\ insert_row(tables, query[e].table, query[e].values).res.status = "Ok"
          /\ Mutation(e, append_fails(tables))

ExecCreateTable(e) ==
    /\ pc[e] = "execute"
    /\ query[e].kind = "CreateTable"
    /\ Mutation(e, create_table(tables, query[e].table, NewTable(query[e])))

ExecDelete_NoCondition(e) ==
    /\ pc[e] = "execute"
    /\ query[e].kind = "Delete"
    /\ Mutation(e, delete_rows(tables, query[e].table, NoCond))

ExecDelete(e) ==
    /\ pc[e] = "execute"
    /\ query[e].kind = "Delete"
    /\ Mutation(e, delete_rows(tables, query[e].table, query[e].condition))

ExecDropTable(e) ==
    /\ pc[e] = "execute"
    /\ query[e].kind = "DropTable"
    /\ Mutation(e, drop_table(tables, query[e].table))

\* a marker arm that takes the storage lock first
ExecMarker_Locking(e) ==
    /\ pc[e] = "execute"
    /\ query[e].kind \in {"StartTransaction", "Commit", "Rollback"}
    /\ CanLock
    /\ entry' = [entry EXCEPT ![e] = tables]
    /\ Finish(e, Ok(<<>>))
    /\ UNCHANGED <<storage_vars, query, columns, table_def, required, column_values,
                   join_values, results, reads, calls, codec_vars, ord_vars, plugin_vars>>

\* StartTransaction | Commit | Rollback => Ok(vec![])
ExecMarker(e) ==
    /\ pc[e] = "execute"
    /\ query[e].kind \in {"StartTransaction", "Commit", "Rollback"}
    /\ entry' = [entry EXCEPT ![e] = tables]
    /\ Finish(e, Ok(<<>>))
    /\ UNCHANGED <<storage_vars, query, columns, table_def, required, column_values,
                   join_values, results, reads, calls, codec_vars, ord_vars, plugin_vars>>

(***************************************************************************)
(* The queries the callers issue.                                          *)
(***************************************************************************)
SchemaL == <<<<cID, "Int32">>, <<cS, "String">>>>
SchemaR == <<<<cLid, "Int32">>>>

RowL1 == <<Int32(1), Str(<<97>>)>>
RowL2 == <<Int32(2), Str(<<98>>)>>
RowR1 == <<Int32(1)>>
RowR2 == <<Int32(2)>>
RowR3 == <<Int32(0 - 1)>>

IdGt1 == Cmp("Gt", cID, Int32(1))
LidGt1 == Cmp("Gt", cLid, Int32(1))

Conds ==
    { NoCond, IdGt1, Not(LidGt1),
      Cmp("Gt", cS, Int32(1)),                       \* incompatible tags
      Cmp("Eq", cZZ, Int32(1)),                      \* unknown column
      And(IdGt1, Not(Cmp("Eq", cS, Str(<<97>>)))) }

ColLists == { <<>>, <<cS>>, <<cS, cID>>, <<cID, cS>>, <<cLid>>, <<cZZ>> }

AggLists ==
    { <<Agg("Sum", cID), Agg("Avg", cID), Agg("Min", cID), Agg("Max", cID), Count>>,
      <<Count>>,
      <<Agg("Min", cS), Agg("Max", cS)>>,
      <<Agg("Sum", cID), Agg("Sum", cS)>>,
      <<Agg("Avg", cS)>>,
      <<Agg("Sum", cID), Agg("Sum", cZZ)>>,
      <<Agg("Sum", cLid), Agg("Avg", cLid), Agg("Min", cLid), Agg("Max", cLid)>>,
      <<Agg("Avg", cLid), Count>>,
      <<>> }

JoinSides ==
    { <<tL, tR, cID, cLid>>, <<tR, tL, cLid, cID>>, <<tL, tL, cID, cID>>,
      <<tL, tR, cZZ, cLid>>, <<tL, tR, cID, cZZ>> }

JoinColLists ==
    { <<>>, <<cID>>, <<cLid>>, <<Qual(tR, cLid)>>, <<cID, Qual(tR, cLid)>>,
      <<Qual(tL, cID), Qual(tR, cLid)>>, <<Qual(tL, cS), cLid>>, <<cZZ>>,
      <<cS, Qual(tL, cID)>> }

Mutations ==
    { Insert(tL, RowL1), Insert(tL, RowL2), Insert(tR, RowR1), Insert(tR, RowR2),
      Insert(tR, RowR3),
      Insert(tL, RowR1), Insert(tR, <<Str(<<97>>)>>),
      CreateTable(tL, SchemaL), CreateTable(tR, SchemaR),
      Delete(tL, NoCond), Delete(tL, IdGt1), Delete(tR, LidGt1), Delete(tR, IdGt1),
      DropTable(tL), DropTable(tR),
      Marker("StartTransaction"), Marker("Commit"), Marker("Rollback") }

Queries ==
    { Select(t, cols, c) : t \in TableNames, cols \in ColLists, c \in Conds }
    \cup { SelectAggregate(t, aggs, c) : t \in TableNames, aggs \in AggLists,
                                         c \in {NoCond, IdGt1, LidGt1} }
    \cup { Join(sd[1], sd[2], sd[3], sd[4], cols, NoCond) :
               sd \in JoinSides, cols \in JoinColLists }
    \cup { Join(tL, tL, cID, cID, <<cS, Qual(tL, cID)>>, IdGt1),
           Join(tL, tR, cID, cLid, <<cID, Qual(tR, cLid)>>, IdGt1) }
    \cup Mutations

\* the queries of two engines running concurrently
ConcQueries ==
    { Select(tL, <<>>, NoCond), Select(tL, <<cS, cID>>, IdGt1),
      SelectAggregate(tL, <<Agg("Sum", cID), Count>>, NoCond),
      Join(tL, tR, cID, cLid, <<cID, Qual(tR, cLid)>>, NoCond),
      Join(tL, tR, cID, cLid, <<cID>>, NoCond),
      Insert(tL, RowL2), Insert(tR, RowR2),
      CreateTable(tL, SchemaL), CreateTable(tR, SchemaR),
      Delete(tL, NoCond), DropTable(tL),
      Marker("StartTransaction"), Marker("Commit"), Marker("Rollback") }

\* one step of engine e inside execute
Step(e) ==
    \/ SelectColumns(e)
    \/ SelectLookup(e)
    \/ SelectLock(e)
    \/ SelectRead(e)
    \/ SelectCompute(e)
    \/ AggregateLookup(e)
    \/ AggregateLock(e)
    \/ AggregateStep(e)
    \/ AggregateFinish(e)
    \/ JoinLock(e)
    \/ JoinReadLeft(e)
    \/ JoinReadRight(e)
    \/ JoinReadColumn(e)
    \/ JoinCompute(e)
    \/ ExecInsert(e)
    \/ ExecCreateTable(e)
    \/ ExecDelete(e)
    \/ ExecDropTable(e)
    \/ ExecMarker(e)
    \/ Return(e)

\* one engine, as the shell drives it: one query after the other
Next ==
    \/ \E q \in Queries : Start(1, q)
    \/ Step(1)

Spec == Init /\ [][Next]_vars

\* two engines on two threads sharing the storage manager
NextConc ==
    \E e \in Engines :
        \/ \E q \in ConcQueries : Start(e, q)
        \/ Step(e)
        \/ LockPoisoned(e)

SpecConc == Init /\ [][NextConc]_vars

(***************************************************************************)
(* The codec harness: a value is serialized, the buffer possibly cut       *)
(* short or extended, and then deserialized under some DataType.           *)
(***************************************************************************)
CodecValues ==
    { Int32(0), Int32(1), Int32(0 - 1), Int32(256), Int32(2147483647),
      Int32((0 - 2147483647) - 1),
      Float32Bits(0, 0, 0), Float32Bits(1, 0, 0), Float32Bits(0, 127, 0),
      Float32Bits(0, 128, 2097152), Float32Bits(1, 255, 0),
      Float32Bits(0, 255, 4194304), Float32Bits(1, 255, 1), Float32Bits(0, 0, 1),
      Str(<<>>), Str(<<97>>), Str(<<97, 98>>), Str(<<195, 169>>),
      Str(<<226, 130, 172>>) }

SurplusBytes == {0, 97, 255}

InitCodec ==
    /\ tables = NoTables
    /\ lock = NoEngine
    /\ poisoned = FALSE
    /\ pc = [e \in Engines |-> "idle"]
    /\ query = [e \in Engines |-> NoQuery]
    /\ columns = [e \in Engines |-> <<>>]
    /\ table_def = [e \in Engines |-> NoTable]
    /\ required = [e \in Engines |-> <<>>]
    /\ column_values = [e \in Engines |-> EmptyStore]
    /\ join_values = [e \in Engines |-> <<>>]
    /\ results = [e \in Engines |-> <<>>]
    /\ outcome = [e \in Engines |-> NoOutcome]
    /\ reads = [e \in Engines |-> 0]
    /\ calls = [e \in Engines |-> 0]
    /\ entry = [e \in Engines |-> NoTables]
    /\ c_pc = "value"
    /\ c_value \in CodecValues
    /\ c_bytes = <<>>
    /\ c_cut = FALSE
    /\ c_extra = 0
    /\ c_type = "Int32"
    /\ c_result = NoOutcome
    /\ ord_pc = "off"
    /\ ord_a = Int32(0)
    /\ ord_b = Int32(0)
    /\ ord_c = Int32(0)
    /\ ord_out = NoCompare
    /\ plugins = {}
    /\ p_call = NoCall
    /\ p_result = NoOutcome
    /\ p_hooks = <<>>
    /\ p_before = {}
    /\ p_live = {}

CodecSerialize ==
    /\ c_pc = "value"
    /\ c_bytes' = serialize(c_value)
    /\ c_pc' = "bytes"
    /\ UNCHANGED <<storage_vars, engine_vars, ord_vars, plugin_vars, c_value, c_cut, c_extra, c_type, c_result>>

CodecTruncate(n) ==
    /\ c_pc = "bytes"
    /\ ~c_cut
    /\ c_extra = 0
    /\ n < Len(c_bytes)
    /\ c_bytes' = SubSeq(c_bytes, 1, n)
    /\ c_cut' = TRUE
    /\ UNCHANGED <<storage_vars, engine_vars, ord_vars, plugin_vars, c_pc, c_value, c_extra, c_type, c_result>>

CodecAppend(b) ==
    /\ c_pc = "bytes"
    /\ c_extra < MaxSurplus
    /\ c_bytes' = Append(c_bytes, b)
    /\ c_extra' = c_extra + 1
    /\ UNCHANGED <<storage_vars, engine_vars, ord_vars, plugin_vars, c_pc, c_value, c_cut, c_type, c_result>>

CodecDeserialize(dt) ==
    /\ c_pc = "bytes"
    /\ c_type' = dt
    /\ c_result' = deserialize(dt, c_bytes)
    /\ c_pc' = "decoded"
    /\ UNCHANGED <<storage_vars, engine_vars, ord_vars, plugin_vars, c_value, c_bytes, c_cut, c_extra>>

NextCodec ==
    \/ CodecSerialize
    \/ \E n \in 0..8 : CodecTruncate(n)
    \/ \E b \in SurplusBytes : CodecAppend(b)
    \/ \E dt \in DataType : CodecDeserialize(dt)

SpecCodec == InitCodec /\ [][NextCodec]_vars

(***************************************************************************)
(* The ordering harness: three Values are drawn and compared pairwise.     *)
(***************************************************************************)
OrdValues ==
    { Int32(1), Int32(2), Int32(0 - 3),
      Str(<<>>), Str(<<97>>), Str(<<97, 98>>),
      Float32Bits(0, 0, 0), Float32Bits(1, 0, 0), Float32Bits(0, 127, 0),
      Float32Bits(1, 127, 0), Float32Bits(0, 255, 0),
      Float32Bits(0, 255, 4194304), Float32Bits(1, 255, 1) }

InitOrd ==
    /\ tables = NoTables
    /\ lock = NoEngine
    /\ poisoned = FALSE
    /\ pc = [e \in Engines |-> "idle"]
    /\ query = [e \in Engines |-> NoQuery]
    /\ columns = [e \in Engines |-> <<>>]
    /\ table_def = [e \in Engines |-> NoTable]
    /\ required = [e \in Engines |-> <<>>]
    /\ column_values = [e \in Engines |-> EmptyStore]
    /\ join_values = [e \in Engines |-> <<>>]
    /\ results = [e \in Engines |-> <<>>]
    /\ outcome = [e \in Engines |-> NoOutcome]
    /\ reads = [e \in Engines |-> 0]
    /\ calls = [e \in Engines |-> 0]
    /\ entry = [e \in Engines |-> NoTables]
    /\ c_pc = "off"
    /\ c_value = Int32(0)
    /\ c_bytes = <<>>
    /\ c_cut = FALSE
    /\ c_extra = 0
    /\ c_type = "Int32"
    /\ c_result = NoOutcome
    /\ ord_pc = "args"
    /\ ord_a \in OrdValues
    /\ ord_b \in OrdValues
    /\ ord_c \in OrdValues
    /\ ord_out = NoCompare
    /\ plugins = {}
    /\ p_call = NoCall
    /\ p_result = NoOutcome
    /\ p_hooks = <<>>
    /\ p_before = {}
    /\ p_live = {}

\* a.cmp(&b), b.cmp(&a), b.cmp(&c), a.cmp(&c) and a.partial_cmp(&b)
OrdCompare ==
    /\ ord_pc = "args"
    /\ ord_pc' = "compared"
    /\ ord_out' = [ab |-> cmp(ord_a, ord_b), ba |-> cmp(ord_b, ord_a),
                   bc |-> cmp(ord_b, ord_c), ac |-> cmp(ord_a, ord_c),
                   partial |-> partial_cmp(ord_a, ord_b)]
    /\ UNCHANGED <<storage_vars, engine_vars, codec_vars, plugin_vars, ord_a, ord_b, ord_c>>

NextOrd == OrdCompare

SpecOrd == InitOrd /\ [][NextOrd]_vars

(***************************************************************************)
(* The plugin registry: PluginManager of src/plugins/mod.rs.               *)
(***************************************************************************)
PluginNames == {"example", "other"}

\* the plugins handed to register_plugin: two versions per name, hooks that
\* succeed or fail
Plugins ==
    { Plugin(n, v, i, sd) : n \in PluginNames, v \in {1, 2},
                            i \in {"Ok", "Err"}, sd \in {"Ok", "Err"} }

\* a contains_key that finds nothing
contains_key_Never(m, k) == FALSE

\* HashMap::contains_key
contains_key(m, k) == \E en \in m : en.key = k

\* ExamplePlugin::execute: "echo" returns its first argument
plugin_execute(plugin, command, args) ==
    IF command = "echo"
    THEN Ok(IF args = <<>> THEN Str(<<>>) ELSE args[1])
    ELSE Err("QueryError")

\* PluginManager::register_plugin
register_plugin(plugin) ==
    /\ p_call' = [op |-> "register", name |-> plugin.name, plugin |-> plugin]
    /\ p_before' = plugins
    /\ IF contains_key(plugins, plugin.name)
       THEN /\ p_result' = Err("ConfigurationError")
            /\ p_hooks' = <<>>
            /\ UNCHANGED <<plugins, p_live>>
       ELSE IF plugin.initialize = "Err"
       THEN /\ p_result' = Err("PluginError")
            /\ p_hooks' = <<"initialize">>
            /\ UNCHANGED <<plugins, p_live>>
       ELSE /\ plugins' = { en \in plugins : en.key # plugin.name }
                              \cup { [key |-> plugin.name, plugin |-> plugin] }
            /\ p_result' = Ok(<<>>)
            /\ p_hooks' = <<"initialize">>
            /\ p_live' = p_live \cup {plugin.name}
    /\ UNCHANGED <<storage_vars, engine_vars, codec_vars, ord_vars>>

\* PluginManager::unregister_plugin: the entry is removed, then shut down
unregister_plugin(name) ==
    /\ p_call' = [op |-> "unregister", name |-> name, plugin |-> NoCall.plugin]
    /\ p_before' = plugins
    /\ plugins' = { en \in plugins : en.key # name }
    /\ p_live' = p_live \ {name}
    /\ IF \E en \in plugins : en.key = name
       THEN LET plugin == (CHOOSE en \in plugins : en.key = name).plugin
            IN  /\ p_hooks' = <<"shutdown">>
                /\ p_result' = IF plugin.shutdown = "Err" THEN Err("PluginError")
                               ELSE Ok(<<>>)
       ELSE /\ p_hooks' = <<>>
            /\ p_result' = Err("ConfigurationError")
    /\ UNCHANGED <<storage_vars, engine_vars, codec_vars, ord_vars>>

\* PluginManager::execute_plugin
execute_plugin(name, command, args) ==
    /\ p_call' = [op |-> "execute", name |-> name, plugin |-> NoCall.plugin]
    /\ p_before' = plugins
    /\ IF \E en \in plugins : en.key = name
       THEN LET plugin == (CHOOSE en \in plugins : en.key = name).plugin
            IN  /\ p_hooks' = <<"execute">>
                /\ p_result' = plugin_execute(plugin, command, args)
       ELSE /\ p_hooks' = <<>>
            /\ p_result' = Err("ConfigurationError")
    /\ UNCHANGED <<storage_vars, engine_vars, codec_vars, ord_vars, plugins, p_live>>

NextPlugin ==
    \/ \E plugin \in Plugins : register_plugin(plugin)
    \/ \E name \in PluginNames : unregister_plugin(name)
    \/ \E name \in PluginNames, command \in {"echo", "stop"},
          args \in {<<>>, <<Int32(1)>>} : execute_plugin(name, command, args)

SpecPlugin == Init /\ [][NextPlugin]_vars

(***************************************************************************)
(* Properties.                                                             *)
(***************************************************************************)
\* engine e has made its first storage access and execute has not returned
InPipeline(e) == calls[e] > 0 /\ pc[e] \notin {"idle", "done", "panicked"}

\* C1: only one query's full pipeline runs at a time: while an engine stays
\* between its first storage access and the return of execute, no step
\* changes the storage and no other engine makes a storage-manager call.
C1_OnePipelineAtATime ==
    [][\A e \in Engines :
          InPipeline(e) /\ InPipeline(e)'
              => /\ tables' = tables
                 /\ \A f \in Engines \ {e} : calls'[f] <= calls[f]]_vars

\* the positions of execute_select / execute_aggregate / execute_join from
\* the locking statement to the end of the compute phase
ReadPhase == {"select_read", "agg_loop", "join_left", "join_right", "join_cols"}

\* what read_column returns for an output column of engine e's query in the
\* present storage state
ReadNow(e, col) ==
    IF query[e].kind = "Join"
    THEN read_column(tables, ResolveTable(col, query[e].table), ResolveColumn(col),
                     query[e].condition)
    ELSE read_column(tables, query[e].table, col, query[e].condition)

\* the scalars of the first n aggregations of engine e's query, computed
\* from the present storage state
AggNow(e, n) ==
    [k \in 1..n |->
        AggResult(query[e].aggregations[k],
                  get_column(table_def[e], AggColumn(query[e].aggregations[k])).def,
                  read_column(tables, query[e].table,
                              AggColumn(query[e].aggregations[k]),
                              query[e].condition).value).value]

\* C2: snapshot consistency of materialization: from the locking statement
\* of a Select, SelectAggregate or Join to the end of its compute phase the
\* engine holds the storage lock, and every column vector read so far (and
\* every scalar computed from one) is what the present storage state gives,
\* so all of them come from one storage state.
C2_SnapshotConsistency ==
    \A e \in Engines :
        pc[e] \in ReadPhase
            => /\ lock = e
               /\ \A c \in DOMAIN column_values[e] :
                      column_values[e][c] = ReadNow(e, c).value
               /\ Len(join_values[e]) >= 1
                      => join_values[e][1] =
                             read_column(tables, query[e].table, query[e].left_column,
                                         query[e].condition).value
               /\ Len(join_values[e]) >= 2
                      => join_values[e][2] =
                             read_column(tables, query[e].right_table,
                                         query[e].right_column,
                                         query[e].condition).value
               /\ results[e] = AggNow(e, Len(results[e]))

\* C2 witness: an engine has read both columns of a Select and is about to
\* filter, while the other engine waits with an Insert
C2_Witness ==
    \E e \in Engines, f \in Engines :
        /\ e # f
        /\ pc[e] = "select_read"
        /\ required[e] = <<>>
        /\ Cardinality(DOMAIN column_values[e]) = 2
        /\ Len(column_values[e][cS]) >= 1
        /\ pc[f] = "execute"
        /\ query[f].kind = "Insert"

\* the query of engine e names a column that is absent from the catalog
\* entry of the table it is resolved against
NamesUnknownColumn(e) ==
    LET q == query[e]
    IN  \/ /\ q.kind = "Select"
           /\ table_def[e].exists
           /\ \/ MissingColumn(table_def[e], columns[e])
              \/ MissingColumn(table_def[e], collect_condition_columns(q.condition))
        \/ /\ q.kind = "SelectAggregate"
           /\ q.condition = NoCond
           /\ table_def[e].exists
           /\ \E k \in DOMAIN q.aggregations :
                  /\ q.aggregations[k].fn # "Count"
                  /\ ~HasColumn(table_def[e], q.aggregations[k].col)
        \/ /\ q.kind = "Join"
           /\ q.condition = NoCond
           /\ get_table(tables, q.table).exists
           /\ get_table(tables, q.right_table).exists
           /\ \/ ~HasColumn(get_table(tables, q.table), q.left_column)
              \/ ~HasColumn(get_table(tables, q.right_table), q.right_column)
              \/ \E k \in DOMAIN q.columns :
                     /\ get_table(tables, ResolveTable(q.columns[k], q.table)).exists
                     /\ ~HasColumn(get_table(tables, ResolveTable(q.columns[k], q.table)),
                                   ResolveColumn(q.columns[k]))

\* C3: unknown-column guard: a query that names a column absent from the
\* table's catalog entry fails, and it fails before any read_column call.
C3_UnknownColumnGuard ==
    \A e \in Engines :
        pc[e] = "done" /\ NamesUnknownColumn(e)
            => outcome[e].status = "Err" /\ reads[e] = 0

\* ---- the stored rows of a table, read row by row
RowOf(tbl, i) == [c \in DOMAIN tbl.store |-> <<tbl.store[c][i]>>]

RowEval(tbl, cond, i) == evaluate_condition_row(cond, RowOf(tbl, i), 1)

Satisfying(tbl, cond) == { i \in 1..tbl.row_count : RowEval(tbl, cond, i) = "true" }

\* the condition names only columns of the table and compares compatible tags
CondApplies(tbl, cond) ==
    /\ \A k \in DOMAIN CondColumnList(cond) : HasColumn(tbl, CondColumnList(cond)[k])
    /\ \A i \in 1..tbl.row_count : RowEval(tbl, cond, i) # "err"

ProjectStored(tbl, cols, i) == [k \in DOMAIN cols |-> tbl.store[cols[k]][i]]

\* the multiset of the projections of the rows satisfying the condition
ExpectedSelect(tbl, cols, cond) ==
    LET rows == { ProjectStored(tbl, cols, i) : i \in Satisfying(tbl, cond) }
    IN  [r \in rows |->
            Cardinality({ i \in Satisfying(tbl, cond) : ProjectStored(tbl, cols, i) = r })]

RequestedColumns(e) ==
    IF query[e].columns = <<>>
    THEN ColumnNames(get_table(tables, query[e].table))
    ELSE query[e].columns

\* C4: Select correctness: a Select over existing columns, with a condition
\* that applies to the table, returns as a multiset exactly one row per
\* stored row satisfying the condition (every row without a condition),
\* holding the requested columns' values in the requested order.
C4_SelectCorrect ==
    \A e \in Engines :
        LET tbl == get_table(tables, query[e].table)
        IN  /\ pc[e] = "done"
            /\ query[e].kind = "Select"
            /\ tbl.exists
            /\ ~MissingColumn(tbl, RequestedColumns(e))
            /\ CondApplies(tbl, query[e].condition)
            => /\ outcome[e].status = "Ok"
               /\ SeqToBag(outcome[e].value)
                      = ExpectedSelect(tbl, RequestedColumns(e), query[e].condition)

\* C4 witness: T(ID, s) holds (1,a),(2,b); [s] where ID > 1 returned {b}
C4_Witness ==
    /\ pc[1] = "done"
    /\ query[1] = Select(tL, <<cS>>, IdGt1)
    /\ tables[tL].exists
    /\ tables[tL].row_count = 2
    /\ tables[tL].store[cID] = <<Int32(1), Int32(2)>>
    /\ outcome[1] = Ok(<< <<Str(<<98>>)>> >>)

\* the pairs of row indices whose join-column values are equal
MatchingPairs(q) ==
    LET lv == get_table(tables, q.table).store[q.left_column]
        rv == get_table(tables, q.right_table).store[q.right_column]
    IN  { p \in (DOMAIN lv) \X (DOMAIN rv) : ValueEq(lv[p[1]], rv[p[2]]) }

\* a Join without condition between two existing tables, on existing join
\* columns, whose output columns all resolve to existing columns
JoinApplies(q) ==
    /\ q.kind = "Join"
    /\ q.condition = NoCond
    /\ q.table # q.right_table
    /\ get_table(tables, q.table).exists
    /\ get_table(tables, q.right_table).exists
    /\ HasColumn(get_table(tables, q.table), q.left_column)
    /\ HasColumn(get_table(tables, q.right_table), q.right_column)
    /\ q.columns # <<>>
    /\ \A k \in DOMAIN q.columns :
           HasColumn(get_table(tables, ResolveTable(q.columns[k], q.table)),
                     ResolveColumn(q.columns[k]))

\* C5: Join correctness: an equality Join without condition over existing
\* tables returns, for any list of output columns, exactly one combined row
\* per pair of a left and a right row index with equal join-column values.
C5_JoinCorrect ==
    \A e \in Engines :
        pc[e] \in {"done", "panicked"} /\ JoinApplies(query[e])
            => /\ outcome[e].status = "Ok"
               /\ Len(outcome[e].value) = Cardinality(MatchingPairs(query[e]))

\* ---- aggregates over the stored rows
RECURSIVE SumInts(_)
SumInts(vs) == IF vs = <<>> THEN 0 ELSE Head(vs).v[1] + SumInts(Tail(vs))

\* the values of a column at the rows satisfying the condition, in order
Filtered(tbl, col, cond) ==
    Pick(tbl.store[col],
         KeepIdx([i \in 1..tbl.row_count |-> RowEval(tbl, cond, i) = "true"], 1))

\* the scalar the design gives for one aggregation over the filtered Int32
\* values vs of a column, n being the number of filtered rows
ExpectedScalar(agg, vs, n) ==
    IF agg.fn = "Count" THEN Int32(n)
    ELSE IF vs = <<>> THEN Float32(0, 1)
    ELSE IF agg.fn = "Sum" THEN Float32(SumInts(vs), 1)
    ELSE IF agg.fn = "Avg"
    THEN Float32(RatNorm(SumInts(vs), Len(vs))[1], RatNorm(SumInts(vs), Len(vs))[2])
    ELSE IF agg.fn = "Min"
    THEN CHOOSE v \in Range(vs) : \A w \in Range(vs) : v.v[1] <= w.v[1]
    ELSE CHOOSE v \in Range(vs) : \A w \in Range(vs) : v.v[1] >= w.v[1]

\* a SelectAggregate whose aggregations are Count or name Int32 columns of
\* the table, with a condition that applies to the table
AggregateApplies(q, tbl) ==
    /\ q.kind = "SelectAggregate"
    /\ tbl.exists
    /\ CondApplies(tbl, q.condition)
    /\ \A k \in DOMAIN q.aggregations :
           \/ q.aggregations[k].fn = "Count"
           \/ /\ HasColumn(tbl, q.aggregations[k].col)
              /\ get_column(tbl, q.aggregations[k].col).def.data_type = "Int32"

ExpectedAggregates(q, tbl) ==
    [k \in DOMAIN q.aggregations |->
        ExpectedScalar(q.aggregations[k],
                       IF q.aggregations[k].fn = "Count" THEN <<>>
                       ELSE Filtered(tbl, q.aggregations[k].col, q.condition),
                       Cardinality(Satisfying(tbl, q.condition)))]

\* C6: aggregate correctness: over Int32 columns SelectAggregate returns
\* exactly one row, one scalar per aggregation in request order: Sum the sum
\* as a float, Avg the sum over the count, Min and Max the least and the
\* greatest value, Count the number of filtered rows.
C6_AggregateCorrect ==
    \A e \in Engines :
        LET tbl == get_table(tables, query[e].table)
        IN  pc[e] = "done" /\ AggregateApplies(query[e], tbl)
                => /\ outcome[e].status = "Ok"
                   /\ outcome[e].value = <<ExpectedAggregates(query[e], tbl)>>

\* the first Sum or Avg of the request over a column declared String
StringSums(q, def) ==
    { k \in DOMAIN q.aggregations :
          /\ q.aggregations[k].fn \in {"Sum", "Avg"}
          /\ HasColumn(def, q.aggregations[k].col)
          /\ get_column(def, q.aggregations[k].col).def.data_type = "String" }

\* C7: type-mismatch guard: a SelectAggregate with a Sum or Avg over a
\* String column fails with InvalidData and returns no row, also when the
\* aggregations before it were computed.
C7_TypeMismatchGuard ==
    \A e \in Engines :
        /\ pc[e] = "done"
        /\ query[e].kind = "SelectAggregate"
        /\ table_def[e].exists
        /\ StringSums(query[e], table_def[e]) # {}
        => outcome[e] = Err("InvalidData")

\* C7 witness: Sum(ID) was computed over two rows, then Sum(s) failed
C7_Witness ==
    /\ pc[1] = "done"
    /\ query[1].aggregations = <<Agg("Sum", cID), Agg("Sum", cS)>>
    /\ results[1] = <<Float32(3, 1)>>
    /\ outcome[1] = Err("InvalidData")

\* C10: insert/row-count invariant: every column store of a table has the
\* table's row count as its length; a created table starts at row count 0;
\* a successful insert_row takes the row count and every column store's
\* length from r to r + 1.
C10_RowCount ==
    [][\A t \in TableNames :
          /\ tables'[t].exists
                 => \A c \in DOMAIN tables'[t].store :
                        Len(tables'[t].store[c]) = tables'[t].row_count
          /\ ~tables[t].exists /\ tables'[t].exists => tables'[t].row_count = 0
          /\ \A e \in Engines :
                 /\ pc[e] = "execute"
                 /\ query[e].kind = "Insert"
                 /\ query[e].table = t
                 /\ pc'[e] = "done"
                 /\ outcome'[e].status = "Ok"
                 => /\ tables'[t].row_count = tables[t].row_count + 1
                    /\ \A c \in DOMAIN tables'[t].store :
                           Len(tables'[t].store[c]) = tables[t].row_count + 1]_vars

\* C10 witness: a second row was inserted into T(ID, s)
C10_Witness ==
    /\ pc[1] = "done"
    /\ query[1].kind = "Insert"
    /\ outcome[1].status = "Ok"
    /\ tables[tL].exists
    /\ tables[tL].row_count = 2
    /\ Len(tables[tL].store[cS]) = 2

\* ---- the codec
\* the buffer is exactly what serialize produced, plus surplus bytes
Uncut == c_pc \in {"bytes", "decoded"} /\ ~c_cut

\* C8: codec round-trip: deserialize(v.data_type(), v.serialize()) is Ok(v),
\* and v.serialize() has v.serialized_size() bytes.
C8_RoundTrip ==
    /\ Uncut /\ c_extra = 0 => Len(c_bytes) = serialized_size(c_value)
    /\ c_pc = "decoded" /\ ~c_cut /\ c_extra = 0 /\ c_type = data_type(c_value)
           => /\ c_result.status = "Ok"
              /\ ValueEq(c_result.value, c_value)

\* C8 witness: a two-byte UTF-8 string came back from its six bytes
C8_Witness ==
    /\ c_pc = "decoded"
    /\ c_value = Str(<<195, 169>>)
    /\ c_bytes = <<2, 0, 0, 0, 195, 169>>
    /\ c_type = "String"
    /\ c_result = Ok(Str(<<195, 169>>))

\* the declared length of a String buffer exceeds the bytes that follow the
\* prefix (buffers here are far shorter than 65536 bytes)
DeclaresTooMuch(bytes) ==
    \/ bytes[4] > 0
    \/ bytes[3] > 0
    \/ bytes[1] + 256 * bytes[2] > Len(bytes) - 4

\* C9: codec failure: deserialize never panics; it returns a
\* SerializationError when the buffer has fewer than 4 bytes (Int32,
\* Float32, String length prefix) or fewer than 4 + declared length bytes
\* (String); a buffer longer than required is accepted, the surplus ignored.
C9_CodecFailure ==
    c_pc = "decoded"
        => /\ c_result.status \in {"Ok", "Err"}
           /\ c_result.status = "Err" => c_result.kind = "SerializationError"
           /\ Len(c_bytes) < 4 => c_result.status = "Err"
           /\ c_type = "String" /\ Len(c_bytes) >= 4 /\ DeclaresTooMuch(c_bytes)
                  => c_result.status = "Err"
           /\ c_type # "String" /\ Len(c_bytes) >= 4 => c_result.status = "Ok"
           /\ ~c_cut /\ c_type = data_type(c_value)
                  => c_result.status = "Ok" /\ ValueEq(c_result.value, c_value)

\* C9 witness: a String buffer cut inside its payload was refused
C9_Witness ==
    /\ c_pc = "decoded"
    /\ c_type = "String"
    /\ c_value = Str(<<97, 98>>)
    /\ c_bytes = <<2, 0, 0, 0, 97>>
    /\ c_result = Err("SerializationError")

\* ---- mutations, seen from the storage contents the call found (entry)
\* the values of column c at the rows not satisfying the condition, in order
Survivors(tbl, c, cond) ==
    LET Keep(i) == RowEval(tbl, cond, i) # "true"
        idx == SelectSeq([i \in 1..Len(tbl.store[c]) |-> i], Keep)
    IN  [k \in DOMAIN idx |-> tbl.store[c][idx[k]]]

\* engine e has returned from a mutation of the given kind
Mutated(e, kind) == pc[e] = "done" /\ query[e].kind = kind

\* C11: delete invariant: after a successful delete_rows(table, cond) no row
\* satisfying cond remains, the rows that did not satisfy it are all still
\* there with their values and in their order, and the row count has dropped
\* by the number of rows that matched (all rows without a condition).
C11_DeleteInvariant ==
    \A e \in Engines :
        Mutated(e, "Delete") /\ outcome[e].status = "Ok"
            => LET old == entry[e][query[e].table]
                   new == tables[query[e].table]
                   cond == query[e].condition
               IN  /\ new.exists
                   /\ new.columns = old.columns
                   /\ DOMAIN new.store = DOMAIN old.store
                   /\ \A c \in DOMAIN old.store : new.store[c] = Survivors(old, c, cond)
                   /\ \A i \in 1..new.row_count : RowEval(new, cond, i) # "true"
                   /\ new.row_count = old.row_count - Cardinality(Satisfying(old, cond))

\* C11 witness: DELETE WHERE ID > 1 took (2,b) out of (1,a),(2,b)
C11_Witness ==
    /\ Mutated(1, "Delete")
    /\ query[1] = Delete(tL, IdGt1)
    /\ outcome[1].status = "Ok"
    /\ entry[1][tL].row_count = 2
    /\ tables[tL].row_count = 1
    /\ tables[tL].store[cID] = <<Int32(1)>>
    /\ tables[tL].store[cS] = <<Str(<<97>>)>>

\* the values of an Insert do not fit the table: wrong count or wrong tags
Misfit(tbl, values) ==
    \/ Len(values) # Len(tbl.columns)
    \/ \E i \in DOMAIN values : values[i].tag # tbl.columns[i].data_type

\* C12: insert is all-or-nothing: an insert_row with a wrong value count or
\* wrong value tags, or one in which a column append fails, returns an error
\* and leaves every column store and the row count as they were.
C12_InsertAllOrNothing ==
    \A e \in Engines :
        Mutated(e, "Insert")
            => LET old == entry[e][query[e].table]
               IN  /\ old.exists /\ Misfit(old, query[e].values)
                          => outcome[e].status = "Err"
                   /\ outcome[e].status = "Err" => tables = entry[e]

\* C12 witness: a String offered to the Int32 column of a table holding a row
C12_Witness ==
    /\ Mutated(1, "Insert")
    /\ query[1] = Insert(tR, <<Str(<<97>>)>>)
    /\ outcome[1] = Err("TypeMismatch")
    /\ entry[1][tR].row_count = 1
    /\ tables[tR].store[cLid] = entry[1][tR].store[cLid]

\* an append failed on a row that fits the table
C12_AppendFailed ==
    /\ Mutated(1, "Insert")
    /\ outcome[1] = Err("IoError")
    /\ entry[1][tL].row_count = 1
    /\ tables = entry[1]

\* C13: table existence guard: create_table succeeds only when the name is
\* not in the catalog and drop_table only when it is; the refused call
\* returns an error and leaves the catalog, the column stores and the row
\* counts unchanged.
C13_TableExistenceGuard ==
    \A e \in Engines :
        LET t == query[e].table
        IN  /\ Mutated(e, "CreateTable")
                => /\ outcome[e].status = "Ok" <=> ~entry[e][t].exists
                   /\ outcome[e].status = "Ok" => tables[t].exists
                   /\ outcome[e].status = "Err" => tables = entry[e]
            /\ Mutated(e, "DropTable")
                => /\ outcome[e].status = "Ok" <=> entry[e][t].exists
                   /\ outcome[e].status = "Ok" => ~tables[t].exists
                   /\ outcome[e].status = "Err" => tables = entry[e]
            /\ (Mutated(e, "CreateTable") \/ Mutated(e, "DropTable"))
                => \A u \in TableNames \ {t} : tables[u] = entry[e][u]

\* C13 witness: CREATE TABLE on a table holding two rows was refused
C13_Witness ==
    /\ Mutated(1, "CreateTable")
    /\ query[1].table = tL
    /\ outcome[1].status = "Err"
    /\ entry[1][tL].row_count = 2
    /\ tables[tL].store[cID] = <<Int32(1), Int32(2)>>

\* DROP TABLE on an unknown name was refused
C13_DropRefused ==
    /\ Mutated(1, "DropTable")
    /\ query[1].table = tR
    /\ outcome[1].status = "Err"
    /\ ~tables[tR].exists
    /\ tables[tL].exists

IsMarker(q) == q.kind \in {"StartTransaction", "Commit", "Rollback"}

\* C14: transaction markers are no-ops: StartTransaction, Commit and
\* Rollback, in any order and in any state, return Ok with an empty row set
\* without acquiring the storage lock (they proceed while another engine
\* holds it or after it was poisoned) and leave the catalog and every column
\* store unchanged, so a Rollback undoes nothing.
C14_MarkersNoOp ==
    /\ [](\A e \in Engines :
              pc[e] = "execute" /\ IsMarker(query[e]) => ENABLED ExecMarker(e))
    /\ [][\A e \in Engines :
              pc[e] = "execute" /\ IsMarker(query[e]) /\ pc'[e] # "execute"
                  => /\ pc'[e] = "done"
                     /\ outcome'[e] = Ok(<<>>)
                     /\ calls'[e] = calls[e]
                     /\ <<tables, lock, poisoned>>' = <<tables, lock, poisoned>>]_vars

\* C14 witness: a Rollback returned Ok on a table holding a row while the
\* other engine held the storage lock
C14_Witness ==
    /\ pc[1] = "done"
    /\ query[1].kind = "Rollback"
    /\ outcome[1] = Ok(<<>>)
    /\ lock = 2
    /\ tables[tL].row_count = 1
    /\ entry[1] = tables

\* engine e ran the nested loop of execute_join: all its reads succeeded
JoinComputed(e) ==
    /\ pc[e] \in {"done", "panicked"}
    /\ query[e].kind = "Join"
    /\ Len(join_values[e]) = 2
    /\ required[e] = <<>>
    /\ DOMAIN column_values[e] = Range(query[e].columns)

\* the resolution of the output columns failed at a matching pair the loop
\* came to
ResolutionFails(e) ==
    LET q == query[e]
        cv == column_values[e]
        lv == join_values[e][1]
        rv == join_values[e][2]
        nl == MinLen(cv, SideKeys(q.columns, cv, q, FALSE))
        nr == MinLen(cv, SideKeys(q.columns, cv, q, TRUE))
    IN  \E i \in DOMAIN lv, j \in DOMAIN rv :
            /\ i <= nl /\ j <= nr
            /\ ValueEq(lv[i], rv[j])
            /\ JoinRow(q, cv, i, j).k = "err"

\* the condition of a Select fails to evaluate at a stored row
SelectEvalFails(e) ==
    LET tbl == get_table(tables, query[e].table)
    IN  /\ pc[e] \in {"done", "panicked"}
        /\ query[e].kind = "Select"
        /\ tbl.exists
        /\ ~MissingColumn(tbl, RequestedColumns(e))
        /\ \A k \in DOMAIN CondColumnList(query[e].condition) :
               HasColumn(tbl, CondColumnList(query[e].condition)[k])
        /\ \E i \in 1..tbl.row_count : RowEval(tbl, query[e].condition, i) = "err"

\* C15: no silent partial results: when the condition evaluation of a
\* Select or the output-column resolution of a Join fails for at least one
\* row index, the whole query returns Err and no rows.
C15_NoSilentPartial ==
    \A e \in Engines :
        SelectEvalFails(e) \/ (JoinComputed(e) /\ ResolutionFails(e))
            => outcome[e].status = "Err"

\* C16: Value equality and ordering are total and tag-respecting: cmp never
\* panics, is antisymmetric and transitive (also in its Equal outcome),
\* returns Equal exactly when the two Values are equal, and agrees with
\* partial_cmp whenever partial_cmp returns Some.
C16_OrderingTotal ==
    ord_pc = "compared"
        => /\ ord_out.ab \in {"Less", "Equal", "Greater"}
           /\ ord_out.ab = "Less" <=> ord_out.ba = "Greater"
           /\ ord_out.ab = "Equal" <=> ord_out.ba = "Equal"
           /\ ord_out.ab = "Less" /\ ord_out.bc \in {"Less", "Equal"}
                  => ord_out.ac = "Less"
           /\ ord_out.ab = "Equal" /\ ord_out.bc = "Less" => ord_out.ac = "Less"
           /\ ord_out.ab = "Equal" /\ ord_out.bc = "Equal" => ord_out.ac = "Equal"
           /\ ord_out.ab = "Equal" <=> ValueEq(ord_a, ord_b)
           /\ ord_out.partial # "None" => ord_out.partial = ord_out.ab

\* what execute_select returns for the column list cols on the present
\* storage contents, when no other engine interferes
SelectOutcome(t, cols, cond) ==
    LET tbl == get_table(tables, t)
        req == required_columns(cols, cond)
        rd(c) == read_column(tables, t, c, cond)
    IN  IF ~tbl.exists THEN Err("InvalidData")
        ELSE IF \/ MissingColumn(tbl, cols)
                \/ MissingColumn(tbl, collect_condition_columns(cond))
        THEN Err("InvalidData")
        ELSE IF \E k \in DOMAIN req : rd(req[k]).status = "Err" THEN Err("InvalidData")
        ELSE SelectRows(cols, cond, [c \in Range(req) |-> rd(c).value])

\* the table's columns in declared order
DeclaredOrder(tbl) == [i \in DOMAIN tbl.columns |-> tbl.columns[i].name]

\* C17: Select default projection: a Select with an empty column list on an
\* existing table returns what the same Select listing all of the table's
\* columns in declared order returns; on an unknown table it fails with
\* InvalidData.
C17_DefaultProjection ==
    \A e \in Engines :
        LET q == query[e]
            tbl == get_table(tables, q.table)
        IN  pc[e] = "done" /\ q.kind = "Select"
                => /\ q.columns # <<>>
                       => outcome[e] = SelectOutcome(q.table, q.columns, q.condition)
                   /\ q.columns = <<>> /\ tbl.exists
                       => outcome[e] = SelectOutcome(q.table, DeclaredOrder(tbl),
                                                     q.condition)
                   /\ q.columns = <<>> /\ ~tbl.exists
                       => outcome[e] = Err("InvalidData")

\* C17 witness: SELECT * WHERE ID > 1 on (1,a),(2,b) returned (2,b)
C17_Witness ==
    /\ pc[1] = "done"
    /\ query[1] = Select(tL, <<>>, IdGt1)
    /\ tables[tL].row_count = 2
    /\ columns[1] = <<cID, cS>>
    /\ outcome[1] = Ok(<< <<Int32(2), Str(<<98>>)>> >>)

MutationKinds == {"Insert", "CreateTable", "Delete", "DropTable"}

\* what the storage-manager call of a mutation may return on the present
\* storage contents
StorageResults(q) ==
    IF q.kind = "Insert"
    THEN {insert_row(tables, q.table, q.values)}
             \cup (IF insert_row(tables, q.table, q.values).res.status = "Ok"
                   THEN {append_fails(tables)} ELSE {})
    ELSE IF q.kind = "CreateTable"
    THEN {create_table(tables, q.table, NewTable(q))}
    ELSE IF q.kind = "Delete"
    THEN {delete_rows(tables, q.table, q.condition)}
    ELSE {drop_table(tables, q.table)}

\* C18: mutation pass-through: Insert, CreateTable, Delete and DropTable
\* each make exactly one storage-manager call while holding the storage
\* lock, return Ok with an empty row set when that call succeeds and the
\* storage manager's error unchanged, with no further call, when it fails.
C18_MutationPassThrough ==
    [][\A e \in Engines :
          pc[e] = "execute" /\ query[e].kind \in MutationKinds /\ pc'[e] # "execute"
              => /\ pc'[e] = "done"
                 /\ lock = NoEngine /\ ~poisoned
                 /\ calls'[e] = calls[e] + 1
                 /\ \E r \in StorageResults(query[e]) :
                        /\ tables' = r.tables
                        /\ outcome'[e] = IF r.res.status = "Ok" THEN Ok(<<>>)
                                         ELSE r.res]_vars

\* the combined row the design gives for the pair (i, j): a column resolved
\* against the right table at right index j, any other at left index i
ResolvedRow(q, i, j) ==
    [k \in DOMAIN q.columns |->
        LET t == ResolveTable(q.columns[k], q.table)
        IN  get_table(tables, t).store[ResolveColumn(q.columns[k])]
                [IF t = q.right_table THEN j ELSE i]]

\* the rows for the matching pairs the nested loop came to, left index major
ResolvedRows(e) ==
    LET q == query[e]
        cv == column_values[e]
        lv == join_values[e][1]
        rv == join_values[e][2]
        nl == Min2(Len(lv), MinLen(cv, SideKeys(q.columns, cv, q, FALSE)))
        nr == Min2(Len(rv), MinLen(cv, SideKeys(q.columns, cv, q, TRUE)))
    IN  Flatten([i \in 1..nl |->
            Pick([j \in 1..nr |-> ResolvedRow(q, i, j)],
                 KeepIdx([j \in 1..nr |-> ValueEq(lv[i], rv[j])], 1))])

\* C19: join output column resolution: in every combined row emitted for a
\* matching pair (i, j) a column resolved against the left table holds that
\* column's value at left row i and a column qualified with the right
\* table's name its value at right row j, whatever the names are.
C19_JoinColumnResolution ==
    \A e \in Engines :
        /\ JoinComputed(e)
        /\ query[e].table # query[e].right_table
        /\ query[e].condition = NoCond
        /\ outcome[e].status = "Ok"
        => outcome[e].value = ResolvedRows(e)

\* the row indices the nested loop iterates on the left (FALSE) or right
\* (TRUE) side
Iterated(e, right) ==
    MinLen(column_values[e], SideKeys(query[e].columns, column_values[e], query[e], right))

\* C20: join row bounds: for every Join over existing tables and every
\* output column list the row indices iterated on each side never exceed
\* the length of that side's join-column vector, so the join never indexes
\* a vector out of bounds and ends by returning Ok or Err.
C20_JoinRowBounds ==
    \A e \in Engines :
        /\ pc[e] \in {"done", "panicked"}
        /\ query[e].kind = "Join"
        /\ get_table(tables, query[e].table).exists
        /\ get_table(tables, query[e].right_table).exists
        => /\ outcome[e].status \in {"Ok", "Err"}
           /\ JoinComputed(e)
                  => /\ Iterated(e, FALSE) <= Len(join_values[e][1])
                     /\ Iterated(e, TRUE) <= Len(join_values[e][2])

\* engine e has returned the row of scalars of a SelectAggregate
Aggregated(e) ==
    pc[e] = "done" /\ query[e].kind = "SelectAggregate" /\ outcome[e].status = "Ok"

\* the positions of the aggregations of function fn in the request
Positions(e, fn) == { k \in DOMAIN query[e].aggregations : query[e].aggregations[k].fn = fn }

\* the filtered values of the column the k-th aggregation names
FilteredAt(e, k) ==
    Filtered(get_table(tables, query[e].table), query[e].aggregations[k].col,
             query[e].condition)

\* the float r is the quotient of the sum of the Int32 values vs by their number
IsMeanOf(r, vs) ==
    /\ r.tag = "Float32"
    /\ r.v[2] > 0
    /\ r.v[1] * Len(vs) = SumInts(vs) * r.v[2]

C21_EmptyAvg ==
    /\ Aggregated(1)
    /\ query[1].table = tL
    /\ query[1].condition = IdGt1
    /\ Len(query[1].aggregations) >= 2
    /\ query[1].aggregations[2] = Agg("Avg", cID)
    /\ tables[tL].row_count = 1
    /\ tables[tL].store[cID] = <<Int32(1)>>
    /\ outcome[1].value[1][2] = Float32(0, 1)

\* the declared type of the column the k-th aggregation names
DeclaredType(e, k) ==
    get_column(get_table(tables, query[e].table), query[e].aggregations[k].col).def.data_type

\* r is one of vs, has the declared type dt, and no value of vs lies on the
\* side `beyond` of it under Value::cmp
IsExtremeOf(r, vs, dt, beyond) ==
    /\ \E i \in DOMAIN vs : vs[i] = r
    /\ \A i \in DOMAIN vs : cmp(vs[i], r) # beyond
    /\ data_type(r) = dt

\* C22: Min (Max) over a column with at least one filtered value returns an
\* element of the filtered column that is a lower (upper) bound of all the
\* filtered values under the Value order and has the column's declared type;
\* over no filtered value both return Float32(0.0), whatever the column type.
C22_MinMaxBounds ==
    \A e \in Engines :
        Aggregated(e)
            => /\ \A k \in Positions(e, "Min") :
                      LET vs == FilteredAt(e, k)
                          r == outcome[e].value[1][k]
                      IN  IF vs = <<>> THEN r = Float32(0, 1)
                          ELSE IsExtremeOf(r, vs, DeclaredType(e, k), "Less")
               /\ \A k \in Positions(e, "Max") :
                      LET vs == FilteredAt(e, k)
                          r == outcome[e].value[1][k]
                      IN  IF vs = <<>> THEN r = Float32(0, 1)
                          ELSE IsExtremeOf(r, vs, DeclaredType(e, k), "Greater")

\* C22 witness: Min(lid), Max(lid) over the rows 2, -1 returned -1 and 2
C22_Witness ==
    /\ Aggregated(1)
    /\ query[1].table = tR
    /\ query[1].condition = NoCond
    /\ Len(query[1].aggregations) = 4
    /\ query[1].aggregations[3] = Agg("Min", cLid)
    /\ query[1].aggregations[4] = Agg("Max", cLid)
    /\ tables[tR].row_count = 2
    /\ tables[tR].store[cLid] = <<Int32(2), Int32(0 - 1)>>
    /\ outcome[1].value[1][3] = Int32(0 - 1)
    /\ outcome[1].value[1][4] = Int32(2)

\* Min and Max of a String column with no filtered row returned Float32(0.0)
C22_EmptyString ==
    /\ Aggregated(1)
    /\ query[1].table = tL
    /\ query[1].aggregations = <<Agg("Min", cS), Agg("Max", cS)>>
    /\ tables[tL].row_count = 1
    /\ FilteredAt(1, 1) = <<>>
    /\ outcome[1].value[1] = <<Float32(0, 1), Float32(0, 1)>>

\* a SelectAggregate of Counts only
CountsOnly(q) ==
    /\ q.kind = "SelectAggregate"
    /\ q.aggregations # <<>>
    /\ \A k \in DOMAIN q.aggregations : q.aggregations[k].fn = "Count"

\* C23: Count needs no column argument: on every existing table, whatever
\* its column names, a SelectAggregate with Count succeeds and returns
\* Int32(n), n the number of rows satisfying the condition (all rows when
\* there is no condition).
C23_CountAnyTable ==
    \A e \in Engines :
        LET tbl == get_table(tables, query[e].table)
            n == Cardinality(Satisfying(tbl, query[e].condition))
        IN  /\ pc[e] = "done"
            /\ CountsOnly(query[e])
            /\ tbl.exists
            /\ CondApplies(tbl, query[e].condition)
            => /\ outcome[e].status = "Ok"
               /\ outcome[e].value = <<[k \in DOMAIN query[e].aggregations |-> Int32(n)]>>

\* the same on the tables that have a column named "ID"
C23_CountWithID ==
    \A e \in Engines :
        LET tbl == get_table(tables, query[e].table)
            n == Cardinality(Satisfying(tbl, query[e].condition))
        IN  /\ pc[e] = "done"
            /\ CountsOnly(query[e])
            /\ tbl.exists
            /\ HasColumn(tbl, cID)
            /\ CondApplies(tbl, query[e].condition)
            => /\ outcome[e].status = "Ok"
               /\ outcome[e].value = <<[k \in DOMAIN query[e].aggregations |-> Int32(n)]>>

\* the call of engine e is over: it returned Ok or Err, or it panicked
CallOver(e) == pc[e] \in {"idle", "done", "panicked"}

\* no call reaches a lock() while it holds the guard of an earlier lock()
C24_NoSelfDeadlock == \A e \in Engines : AtLockSite(e) => lock # e

\* no call keeps the lock after it has ended
C24_ReleasedOnReturn == \A e \in Engines : CallOver(e) => lock # e

\* a call at a lock() with the lock free takes it and goes on
C24_FreeLockIsTaken == \A e \in Engines : AtLockSite(e) /\ lock = NoEngine => CanLock

\* C24: lock release and no self-deadlock: no path of execute reaches a
\* lock() while the same call holds the lock, every return path (Ok or Err)
\* releases it, and a query issued after a failed query can always take
\* the lock and run.
C24_LockRelease ==
    /\ C24_NoSelfDeadlock
    /\ C24_ReleasedOnReturn
    /\ C24_FreeLockIsTaken

\* the same after returns only: no query has panicked
C24_LockReleaseAfterReturns ==
    (\A e \in Engines : pc[e] # "panicked" /\ outcome[e].status # "Panic")
        => C24_LockRelease

\* the registry m holds a plugin under the name
Registered(m, name) == \E en \in m : en.key = name

\* the names the registry holds
RegisteredNames(m) == { en.key : en \in m }

\* C25: plugin registry invariant: after any sequence of register_plugin,
\* unregister_plugin and execute_plugin calls the registry holds at most one
\* plugin per name and exactly the plugins registered with Ok and not
\* unregistered since; a register_plugin that fails (name already
\* registered, initialize then not called, or initialize fails) leaves the
\* registry unchanged; unregister_plugin and execute_plugin on an
\* unregistered name return ConfigurationError and leave it unchanged.
C25_RegistryInvariant ==
    /\ \A a \in plugins, b \in plugins : a.key = b.key => a = b
    /\ \A en \in plugins : en.key = en.plugin.name
    /\ RegisteredNames(plugins) = p_live
    /\ p_call.op = "register"
           => /\ p_result.status = "Err" => plugins = p_before
              /\ Registered(p_before, p_call.name)
                     => p_result = Err("ConfigurationError") /\ p_hooks = <<>>
              /\ ~Registered(p_before, p_call.name) /\ p_call.plugin.initialize = "Err"
                     => p_result.status = "Err" /\ p_hooks = <<"initialize">>
              /\ p_result.status = "Ok"
                     => plugins = p_before \cup {[key |-> p_call.name, plugin |-> p_call.plugin]}
    /\ p_call.op \in {"unregister", "execute"} /\ ~Registered(p_before, p_call.name)
           => p_result = Err("ConfigurationError") /\ plugins = p_before /\ p_hooks = <<>>
    /\ p_call.op = "execute" => plugins = p_before

\* C25 witness: version 2 of a registered plugin was refused, version 1 stays
C25_Witness ==
    /\ p_call.op = "register"
    /\ p_call.plugin = Plugin("example", 2, "Ok", "Ok")
    /\ [key |-> "example", plugin |-> Plugin("example", 1, "Ok", "Ok")] \in plugins
    /\ Registered(plugins, "other")
    /\ p_result = Err("ConfigurationError")

\* an unregister_plugin whose shutdown failed: the plugin is gone
C25_ShutdownFailed ==
    /\ p_call.op = "unregister"
    /\ Registered(p_before, p_call.name)
    /\ p_result = Err("PluginError")
    /\ ~Registered(plugins, p_call.name)

====
